---- MODULE Spec2Model ----
(***************************************************************************)
(* Local Feather server: device registration and authentication, reading   *)
(* ingestion, the rate limiter in front of it, and the firmware catalog    *)
(* with the OTA endpoints (check, download, status).                       *)
(*                                                                         *)
(* The database is the committed state (devices, readings).  A request to  *)
(* POST /api/readings runs in one session_scope: it reads the device row,  *)
(* works on the loaded object in memory and writes at its commit, so a     *)
(* request is a short process (idle -> register | commit -> refresh ->     *)
(* done) and requests interleave at their database accesses.               *)
(***************************************************************************)
EXTENDS Integers, Sequences, FiniteSets, TLC

\* ------------------------------------------------------------------ bounds
MaxInflight == 2      \* requests handled in parallel
MaxBatch == 2         \* items in one readings array
MaxDevicePk == 2      \* device rows ever inserted
MaxReadingRows == 2   \* reading rows ever inserted
MaxTokens == 2        \* secrets.token_hex values ever drawn
MaxHits == 2          \* requests per limiter key and window outside SpecRate
MaxIssued == 62       \* requests per limiter key and window in SpecRate
MaxUpdates == 1       \* device_updates rows ever inserted outside SpecAttempts
MaxAttempts == 2      \* device_updates rows ever inserted in SpecAttempts
MaxFirmware == 2      \* firmware rows in the catalog
MaxTime == 1          \* last tick of the server clock
MaxClock == 125       \* last second of the server clock in SpecOnline
MaxSeen == 2          \* last second a device was seen at in SpecOnline
MaxThreshold == 2     \* minutes of the online threshold in SpecOnline

\* ------------------------------------------------------- program constants
RateLimit == 60                  \* "60 per minute"
DefaultReadingInterval == 60000  \* Device.reading_interval default

\* ------------------------------------------------------------------ values
NoDevice == 0
NoTime == -1
NoId == ""
NoVersion == ""
Slots == 1..MaxInflight
DeviceIds == {"esp32-a", "esp32-b"}
RemoteAddr == "10.0.0.7"

NoKey == [src |-> "none", n |-> 0]
ClientKeys == {[src |-> "client", n |-> 1]}

\* a generator that repeats itself
TokenHexRepeats(n) == [src |-> "server", n |-> 1]

\* secrets.token_hex(32): 256 random bits, a fresh value at every draw
TokenHex(n) == [src |-> "server", n |-> n]

\* flask_bcrypt.generate_password_hash: salted one-way hash
GeneratePasswordHash(password, salt) ==
    [kind |-> "bcrypt", secret |-> password, salt |-> salt]

\* a value written to the api_key column as it is
Plain(password) == [kind |-> "plain", secret |-> password, salt |-> 0]

\* a check that accepts every password
CheckPasswordHashAny(pw_hash, password) == "match"

\* flask_bcrypt.check_password_hash: bcrypt.hashpw(password, pw_hash) raises
\* ValueError ("Invalid salt") when pw_hash is not a bcrypt hash
CheckPasswordHash(pw_hash, password) ==
    IF pw_hash.kind # "bcrypt" THEN "error"
    ELSE IF pw_hash.secret = password THEN "match" ELSE "mismatch"

\* JSON values of a reading's "value" field
NullValue == [t |-> "null", v |-> 0]
Num(v) == [t |-> "num", v |-> v]
NonNumeric == [t |-> "str", v |-> 0]

\* JSON values of a reading's "timestamp" field: absent, a Unix time in seconds, a
\* number past year 9999, a number past the platform's time_t, a string
NoTimestamp == NullValue
FarNumber == [t |-> "far", v |-> 0]
HugeNumber == [t |-> "huge", v |-> 0]

GoodItem == [sensor |-> "temperature", value |-> Num(1), unit |-> "C", timestamp |-> NoTimestamp]
ZeroItem == [sensor |-> "temperature", value |-> Num(0), unit |-> "C", timestamp |-> NoTimestamp]
NoSensorItem == [sensor |-> "", value |-> Num(1), unit |-> "C", timestamp |-> NoTimestamp]
NullValueItem == [sensor |-> "temperature", value |-> NullValue, unit |-> "C",
                  timestamp |-> NoTimestamp]
NoUnitItem == [sensor |-> "temperature", value |-> Num(1), unit |-> "", timestamp |-> NoTimestamp]
NonNumericItem == [sensor |-> "temperature", value |-> NonNumeric, unit |-> "C",
                   timestamp |-> NoTimestamp]

\* well-formed readings that carry a timestamp
Stamped(timestamp) == [GoodItem EXCEPT !.timestamp = timestamp]
DeviceTime == 7
StampedItems ==
    {GoodItem, Stamped(Num(DeviceTime)), Stamped(Num(0)), Stamped(FarNumber),
     Stamped(HugeNumber), Stamped(NonNumeric)}

Items == {GoodItem, ZeroItem, NoSensorItem, NullValueItem, NoUnitItem, NonNumericItem}

SeqsUpTo(S, n) == UNION {[1..k -> S] : k \in 0..n}

\* ------------------------------------------------------------------- state
VARIABLES
    devices,        \* devices table: primary key -> row
    readings,       \* readings table: set of rows
    nextDeviceId,   \* autoincrement of devices.id
    nextReadingId,  \* autoincrement of readings.id
    tokens,         \* number of token_hex values drawn so far
    limiter,        \* Flask-Limiter storage: key -> hits in the current window
    now,            \* server clock
    pc,             \* slot -> position of the request it handles
    req,            \* slot -> the request's body and locals (loaded device, pending rows)
    resp,           \* slot -> the response, once the request is done
    secretOf,       \* history: primary key -> plaintext secret last issued for the device
    oldSecrets,     \* history: primary key -> secrets replaced by a regeneration
    sent,           \* history: plaintext secret -> number of responses that carried it
    registered,     \* history: device_id -> number of registration responses
    issued,         \* history: limiter key -> requests that arrived in the current window
    reached,        \* history: limiter key -> requests of the window that entered post_readings
    firmware,       \* firmware table: primary key -> row
    updates,        \* device_updates table: primary key -> row
    nextUpdateId,   \* autoincrement of device_updates.id
    opc,            \* slot -> position of the OTA request it handles
    oreq,           \* slot -> the OTA request's parameters and loaded objects
    oresp,          \* slot -> the OTA response, once the request is done
    adm,            \* the last administrative response, when they are recorded
    recording       \* whether administrative responses are recorded

db == <<devices, readings, nextDeviceId, nextReadingId>>
hist == <<secretOf, oldSecrets, sent, registered>>
rate == <<limiter, issued, reached>>
catalog == <<firmware, updates, nextUpdateId>>
ota == <<firmware, updates, nextUpdateId, opc, oreq, oresp>>
vars == <<devices, readings, nextDeviceId, nextReadingId, tokens, limiter, now,
          pc, req, resp, secretOf, oldSecrets, sent, registered, issued, reached,
          firmware, updates, nextUpdateId, opc, oreq, oresp, adm, recording>>

AllSecrets == ClientKeys \cup {TokenHex(n) : n \in 1..(MaxTokens + 1)}
LimitKeys == {<<"device", d>> : d \in DeviceIds} \cup {<<"ip", RemoteAddr>>}

NoData == [device_id |-> NoId, api_key |-> NoKey, firmware_version |-> NoVersion,
           readings |-> <<>>]
NoReq == [data |-> NoData, device |-> NoDevice, total |-> 0, t |-> NoTime,
          setfw |-> FALSE, rows |-> <<>>, body |-> "json"]
\* a response without the key reading_interval
NoInterval == -1

NoResp == [code |-> 0, status |-> "", api_key |-> NoKey, received |-> 0,
           reading_interval |-> NoInterval]

Response(code, status) == [NoResp EXCEPT !.code = code, !.status = status]

\* firmware versions of the catalog and of the devices' declarations
Versions == {"1.0.0", "1.0.1"}
NoFirmware == 0
NoMessage == ""

NoOtaReq == [op |-> "", device_id |-> NoId, version |-> NoVersion, status |-> "",
             error_message |-> NoMessage, device |-> NoDevice, firmware |-> NoFirmware,
             previous_version |-> NoVersion, download_count |-> 0]
NoOtaResp == [code |-> 0, error |-> "", update_available |-> FALSE,
              current_version |-> NoVersion, new_version |-> NoVersion,
              message |-> NoMessage, status |-> ""]

OtaError(code, error) == [NoOtaResp EXCEPT !.code = code, !.error = error]

\* an administrative response: the operation, the device it names (by device_id in
\* the API, by primary key in the web views), the HTTP code, the api_key field, and
\* the is_online field of a device view with the threshold it was computed for
NoAdm == [op |-> "", device_id |-> NoId, pk |-> NoDevice, code |-> 0, api_key |-> NoKey,
          threshold_minutes |-> 0, is_online |-> FALSE]

AdminResponse(op, device_id, pk, code) ==
    [NoAdm EXCEPT !.op = op, !.device_id = device_id, !.pk = pk, !.code = code]

\* the empty database, cache and workers of a server that has just started
Started ==
    /\ devices = <<>>
    /\ readings = {}
    /\ nextDeviceId = 1
    /\ nextReadingId = 1
    /\ tokens = 0
    /\ limiter = [k \in LimitKeys |-> 0]
    /\ now = 0
    /\ pc = [r \in Slots |-> "idle"]
    /\ req = [r \in Slots |-> NoReq]
    /\ resp = [r \in Slots |-> NoResp]
    /\ secretOf = <<>>
    /\ oldSecrets = <<>>
    /\ sent = [s \in AllSecrets |-> 0]
    /\ registered = [d \in DeviceIds |-> 0]
    /\ issued = [k \in LimitKeys |-> 0]
    /\ reached = [k \in LimitKeys |-> 0]
    /\ firmware = <<>>
    /\ updates = <<>>
    /\ nextUpdateId = 1
    /\ opc = [r \in Slots |-> "idle"]
    /\ oreq = [r \in Slots |-> NoOtaReq]
    /\ oresp = [r \in Slots |-> NoOtaResp]
    /\ adm = NoAdm

Init == Started /\ recording = FALSE

\* ... with the administrative responses recorded
InitRecording == Started /\ recording = TRUE

\* ----------------------------------------------------------------- helpers
\* session.query(Device).filter_by(device_id=device_id).first()
FindDevice(device_id) ==
    IF \E pk \in DOMAIN devices : devices[pk].device_id = device_id
    THEN CHOOSE pk \in DOMAIN devices : devices[pk].device_id = device_id
    ELSE NoDevice

\* a key function that keys every request by its source address
GetRateLimitKeyByAddress(data) == <<"ip", RemoteAddr>>

\* get_rate_limit_key: the device_id of the body when it has one, else the address
GetRateLimitKey(data) ==
    IF data.device_id # NoId THEN <<"device", data.device_id>> ELSE <<"ip", RemoteAddr>>

\* not all([sensor, value is not None, unit]) -> continue
ItemPasses(item) ==
    item.sensor # "" /\ item.value.t # "null" /\ item.unit # ""

\* Decimal(str(value)) raises InvalidOperation for a value that is no number
DecimalRaises(item) == item.value.t = "str"

RECURSIVE AcceptedRows(_)
\* the items of the readings array the loop turns into Reading objects
AcceptedRows(items) ==
    IF items = <<>> THEN <<>>
    ELSE IF ItemPasses(Head(items)) THEN <<Head(items)>> \o AcceptedRows(Tail(items))
    ELSE AcceptedRows(Tail(items))

\* naive datetimes: utcnow() is on the UTC clock, fromtimestamp() on the clock of
\* the server's local zone
UtcNow(t) == [zone |-> "utc", s |-> t]
LocalTime(t) == [zone |-> "local", s |-> t]

\* datetime.fromtimestamp(timestamp): a datetime, or the exception it raises
FromTimestamp(timestamp) ==
    IF timestamp.t = "num" THEN "datetime"
    ELSE IF timestamp.t = "far" THEN "ValueError"
    ELSE IF timestamp.t = "huge" THEN "OverflowError"
    ELSE "TypeError"

\* if timestamp: ... (None and 0 are false)
Truthy(timestamp) == ~(timestamp.t = "null" \/ (timestamp.t = "num" /\ timestamp.v = 0))

\* the conversion raises past its except (ValueError, OSError)
TimestampRaises(timestamp) ==
    Truthy(timestamp) /\ FromTimestamp(timestamp) \in {"OverflowError", "TypeError"}

\* dt of an item the loop keeps; t is utcnow()
EventTime(timestamp, t) ==
    IF Truthy(timestamp) /\ FromTimestamp(timestamp) = "datetime"
    THEN LocalTime(timestamp.v)
    ELSE UtcNow(t)

\* the loop raises when an item that passed the check cannot be converted
LoopRaises(items) ==
    \E i \in 1..Len(items) :
        ItemPasses(items[i]) /\ (TimestampRaises(items[i].timestamp) \/ DecimalRaises(items[i]))

RECURSIVE SumRows(_)
SumRows(S) ==
    IF S = {} THEN 0
    ELSE LET r == CHOOSE x \in S : TRUE IN Len(req[r].rows) + SumRows(S \ {r})

\* rows that requests between their query and their commit are about to insert
PendingRows == SumRows({r \in Slots : pc[r] = "commit"})
PendingDevices == Cardinality({r \in Slots : pc[r] = "register"})

Finish(r, response) ==
    /\ pc' = [pc EXCEPT ![r] = "done"]
    /\ resp' = [resp EXCEPT ![r] = response]

\* --------------------------------------------------------- POST /api/readings
\* a limit enforced after the view function registered the device
RejectedAfterView(r, data) ==
    /\ Finish(r, Response(429, "rate_limited"))
    /\ req' = [req EXCEPT ![r] = [NoReq EXCEPT !.data = data]]
    /\ IF data.device_id # NoId /\ data.readings # <<>>
          /\ \A pk \in DOMAIN devices : devices[pk].device_id # data.device_id
       THEN /\ devices' = (nextDeviceId :>
                              [device_id |-> data.device_id,
                               api_key |-> GeneratePasswordHash(data.api_key, nextDeviceId),
                               approved |-> FALSE,
                               firmware_version |-> data.firmware_version,
                               reading_interval |-> DefaultReadingInterval,
                               last_seen |-> now,
                               last_reading_at |-> NoTime,
                               total_readings |-> 0]) @@ devices
            /\ nextDeviceId' = nextDeviceId + 1
       ELSE UNCHANGED <<devices, nextDeviceId>>
    /\ UNCHANGED <<readings, nextReadingId, tokens, limiter, reached, hist>>

\* the limiter refuses the request before the view function runs: HTTP 429
Rejected(r, data) ==
    /\ Finish(r, Response(429, "rate_limited"))
    /\ req' = [req EXCEPT ![r] = [NoReq EXCEPT !.data = data]]
    /\ UNCHANGED <<db, tokens, limiter, reached, hist>>

\* a handler that refreshes the liveness metadata as soon as it has loaded the
\* device, before the key check and the approval check, and flushes them on return
PostReadingsRefreshesFirst(r, data) ==
    LET pk == FindDevice(data.device_id) IN
    /\ UNCHANGED <<readings, nextDeviceId, nextReadingId, tokens, hist>>
    /\ IF data.device_id = NoId \/ data.readings = <<>>
       THEN /\ Finish(r, Response(400, "error"))
            /\ req' = [req EXCEPT ![r] = [NoReq EXCEPT !.data = data]]
            /\ UNCHANGED devices
       ELSE IF pk = NoDevice
       THEN /\ pc' = [pc EXCEPT ![r] = "register"]
            /\ req' = [req EXCEPT ![r] = [NoReq EXCEPT !.data = data]]
            /\ UNCHANGED <<resp, devices>>
       ELSE LET dev == devices[pk]
                check == CheckPasswordHash(dev.api_key, data.api_key)
                loaded == [NoReq EXCEPT !.data = data, !.device = pk]
                refreshed == [dev EXCEPT !.last_seen = now,
                                         !.firmware_version =
                                             IF data.firmware_version # NoVersion
                                             THEN data.firmware_version ELSE @]
            IN
            IF check = "error"
            THEN /\ Finish(r, Response(500, "error"))
                 /\ req' = [req EXCEPT ![r] = loaded]
                 /\ UNCHANGED devices
            ELSE IF check = "mismatch"
            THEN /\ Finish(r, Response(401, "error"))
                 /\ req' = [req EXCEPT ![r] = loaded]
                 /\ devices' = [devices EXCEPT ![pk] = refreshed]
            ELSE IF ~dev.approved
            THEN /\ Finish(r, Response(403, "pending_approval"))
                 /\ req' = [req EXCEPT ![r] = loaded]
                 /\ devices' = [devices EXCEPT ![pk] = refreshed]
            ELSE IF LoopRaises(data.readings)
            THEN /\ Finish(r, Response(500, "error"))
                 /\ req' = [req EXCEPT ![r] = loaded]
                 /\ UNCHANGED devices
            ELSE /\ pc' = [pc EXCEPT ![r] = "commit"]
                 /\ req' = [req EXCEPT ![r] =
                        [data |-> data, device |-> pk, total |-> dev.total_readings,
                         t |-> now,
                         setfw |-> (data.firmware_version # NoVersion
                                    /\ data.firmware_version # dev.firmware_version),
                         rows |-> AcceptedRows(data.readings), body |-> "json"]]
                 /\ UNCHANGED <<resp, devices>>

\* post_readings up to its first database access and, for an existing device, up to
\* the commit: the checks of the payload, the query, the key check, the approval
\* check and the loop over the readings, which all work on the loaded object
PostReadings(r, data) ==
    LET pk == FindDevice(data.device_id) IN
    /\ UNCHANGED <<db, tokens, hist>>
    /\ IF data.device_id = NoId \/ data.readings = <<>>
       THEN /\ Finish(r, Response(400, "error"))
            /\ req' = [req EXCEPT ![r] = [NoReq EXCEPT !.data = data]]
       ELSE IF pk = NoDevice
       THEN /\ pc' = [pc EXCEPT ![r] = "register"]
            /\ req' = [req EXCEPT ![r] = [NoReq EXCEPT !.data = data]]
            /\ UNCHANGED resp
       ELSE LET dev == devices[pk]
                check == CheckPasswordHash(dev.api_key, data.api_key)
                loaded == [NoReq EXCEPT !.data = data, !.device = pk]
            IN
            IF check = "error"
            THEN Finish(r, Response(500, "error")) /\ req' = [req EXCEPT ![r] = loaded]
            ELSE IF check = "mismatch"
            THEN Finish(r, Response(401, "error")) /\ req' = [req EXCEPT ![r] = loaded]
            ELSE IF ~dev.approved
            THEN Finish(r, Response(403, "pending_approval"))
                 /\ req' = [req EXCEPT ![r] = loaded]
            ELSE IF LoopRaises(data.readings)
            THEN Finish(r, Response(500, "error")) /\ req' = [req EXCEPT ![r] = loaded]
            ELSE /\ pc' = [pc EXCEPT ![r] = "commit"]
                 /\ req' = [req EXCEPT ![r] =
                        [data |-> data, device |-> pk, total |-> dev.total_readings,
                         t |-> now,
                         setfw |-> (data.firmware_version # NoVersion
                                    /\ data.firmware_version # dev.firmware_version),
                         rows |-> AcceptedRows(data.readings), body |-> "json"]]
                 /\ UNCHANGED resp

\* request.get_json() on a body that is no JSON document.  With Content-Type
\* application/json the parse fails and get_json raises BadRequest.  Without it
\* get_json returns None in Flask before 2.1 and raises (400, later 415) since.
GetJsonOutcomes(is_json) == IF is_json THEN {"raises"} ELSE {"None", "raises"}

\* post_readings on a request whose body is empty or is no JSON document: the key
\* function finds no device_id (get_json(silent=True) is None) and keys by the
\* address; in the view function get_json() is called inside the try block, so what
\* it raises is caught by "except Exception" and answered 500; when it returns None
\* the answer is 400 'No JSON data provided'
PostUnparsed(r, is_json) ==
    LET key == <<"ip", RemoteAddr>> IN
    /\ pc[r] = "idle"
    /\ issued' = [issued EXCEPT ![key] = @ + 1]
    /\ req' = [req EXCEPT ![r] = [NoReq EXCEPT !.body = IF is_json THEN "malformed"
                                                                   ELSE "none"]]
    /\ UNCHANGED <<db, tokens, hist, now, adm, recording, ota>>
    /\ IF limiter[key] >= RateLimit
       THEN /\ Finish(r, Response(429, "rate_limited"))
            /\ UNCHANGED <<limiter, reached>>
       ELSE /\ limiter' = [limiter EXCEPT ![key] = @ + 1]
            /\ reached' = [reached EXCEPT ![key] = @ + 1]
            /\ \E outcome \in GetJsonOutcomes(is_json) :
                   Finish(r, Response(IF outcome = "None" THEN 400 ELSE 500, "error"))

\* a limiter that compares with > and lets one request more through
PostBeginOneMore(r, data) ==
    LET key == GetRateLimitKey(data) IN
    /\ pc[r] = "idle"
    /\ issued' = [issued EXCEPT ![key] = @ + 1]
    /\ UNCHANGED <<now, adm, recording, ota>>
    /\ IF limiter[key] > RateLimit
       THEN Rejected(r, data)
       ELSE /\ limiter' = [limiter EXCEPT ![key] = @ + 1]
            /\ reached' = [reached EXCEPT ![key] = @ + 1]
            /\ PostReadings(r, data)

\* a request arrives: Flask-Limiter's check runs before the view function
PostBegin(r, data) ==
    LET key == GetRateLimitKey(data) IN
    /\ pc[r] = "idle"
    /\ issued' = [issued EXCEPT ![key] = @ + 1]
    /\ UNCHANGED <<now, adm, recording, ota>>
    /\ IF limiter[key] >= RateLimit
       THEN Rejected(r, data)
       ELSE /\ limiter' = [limiter EXCEPT ![key] = @ + 1]
            /\ reached' = [reached EXCEPT ![key] = @ + 1]
            /\ PostReadings(r, data)

NewDevice(data, api_key, salt) ==
    [device_id |-> data.device_id,
     api_key |-> GeneratePasswordHash(api_key, salt),
     approved |-> FALSE,
     firmware_version |-> data.firmware_version,
     reading_interval |-> DefaultReadingInterval,
     last_seen |-> now,
     last_reading_at |-> NoTime,
     total_readings |-> 0]

\* a devices table without the unique index on device_id
RegisterCommitNoIndex(r) ==
    LET data == req[r].data
        drawn == data.api_key = NoKey
        api_key == IF drawn THEN TokenHex(tokens + 1) ELSE data.api_key
    IN
    /\ pc[r] = "register"
    /\ tokens' = IF drawn THEN tokens + 1 ELSE tokens
    /\ UNCHANGED <<readings, nextReadingId, now, adm, recording, ota, rate, oldSecrets, req>>
    /\ devices' = (nextDeviceId :> NewDevice(data, api_key, nextDeviceId)) @@ devices
    /\ nextDeviceId' = nextDeviceId + 1
    /\ Finish(r, [Response(200, "registered") EXCEPT !.api_key = api_key])
    /\ secretOf' = (nextDeviceId :> api_key) @@ secretOf
    /\ sent' = [sent EXCEPT ![api_key] = @ + 1]
    /\ registered' = [registered EXCEPT ![data.device_id] = @ + 1]

\* first contact: the key is drawn when the payload has none, the device is added
\* and flushed, and the scope commits on the way out.  The unique index on
\* devices.device_id fails the INSERT when another request committed the same
\* device_id since the query; the handler answers 500 and nothing is written.
RegisterCommit(r) ==
    LET data == req[r].data
        drawn == data.api_key = NoKey
        api_key == IF drawn THEN TokenHex(tokens + 1) ELSE data.api_key
    IN
    /\ pc[r] = "register"
    /\ tokens' = IF drawn THEN tokens + 1 ELSE tokens
    /\ UNCHANGED <<readings, nextReadingId, now, adm, recording, ota, rate, oldSecrets, req>>
    /\ IF FindDevice(data.device_id) # NoDevice
       THEN /\ Finish(r, Response(500, "error"))
            /\ UNCHANGED <<devices, nextDeviceId, secretOf, sent, registered>>
       ELSE /\ devices' = (nextDeviceId :> NewDevice(data, api_key, nextDeviceId)) @@ devices
            /\ nextDeviceId' = nextDeviceId + 1
            /\ Finish(r, [Response(200, "registered") EXCEPT !.api_key = api_key])
            /\ secretOf' = (nextDeviceId :> api_key) @@ secretOf
            /\ sent' = [sent EXCEPT ![api_key] = @ + 1]
            /\ registered' = [registered EXCEPT ![data.device_id] = @ + 1]

NewReadings(r) ==
    {[id |-> nextReadingId + i - 1, device_id |-> req[r].device,
      sensor |-> req[r].rows[i].sensor, value |-> req[r].rows[i].value.v,
      unit |-> req[r].rows[i].unit,
      timestamp |-> EventTime(req[r].rows[i].timestamp, req[r].t),
      received_at |-> UtcNow(req[r].t)]
     : i \in 1..Len(req[r].rows)}

\* a flush that hashes the presented key again and stores the new hash
FlushDeviceRehashes(dev, r) ==
    [dev EXCEPT !.last_seen = req[r].t,
                !.last_reading_at = req[r].t,
                !.api_key = GeneratePasswordHash(req[r].data.api_key, dev.api_key.salt + 1),
                !.firmware_version = IF req[r].setfw THEN req[r].data.firmware_version ELSE @,
                !.total_readings = IF Len(req[r].rows) > 0
                                   THEN req[r].total + Len(req[r].rows) ELSE @]

\* the values the flush writes to the device row: the attributes the handler set on
\* the loaded object (total_readings from the value it loaded)
FlushDevice(dev, r) ==
    [dev EXCEPT !.last_seen = req[r].t,
                !.last_reading_at = req[r].t,
                !.firmware_version = IF req[r].setfw THEN req[r].data.firmware_version ELSE @,
                !.total_readings = IF Len(req[r].rows) > 0
                                   THEN req[r].total + Len(req[r].rows) ELSE @]

\* session.commit() of an approved device's batch: UPDATE devices ... WHERE id = pk,
\* then the INSERTs.  When the row is gone the UPDATE matches nothing
\* (StaleDataError), the scope rolls back and the handler answers 500.
PostCommit(r) ==
    LET pk == req[r].device IN
    /\ pc[r] = "commit"
    /\ UNCHANGED <<nextDeviceId, tokens, now, adm, recording, ota, rate, hist, req>>
    /\ IF pk \notin DOMAIN devices
       THEN /\ Finish(r, Response(500, "error"))
            /\ UNCHANGED <<devices, readings, nextReadingId>>
       ELSE /\ devices' = [devices EXCEPT ![pk] = FlushDevice(@, r)]
            /\ readings' = readings \cup NewReadings(r)
            /\ nextReadingId' = nextReadingId + Len(req[r].rows)
            /\ pc' = [pc EXCEPT ![r] = "refresh"]
            /\ UNCHANGED resp

\* a success response that returns the key the request presented
PostRespondEchoesKey(r) ==
    LET pk == req[r].device IN
    /\ pc[r] = "refresh"
    /\ UNCHANGED <<db, tokens, now, adm, recording, ota, rate, hist, req>>
    /\ IF pk \notin DOMAIN devices
       THEN Finish(r, Response(500, "error"))
       ELSE Finish(r, [Response(200, "ok") EXCEPT
                          !.api_key = req[r].data.api_key,
                          !.received = Len(req[r].rows),
                          !.reading_interval =
                              IF devices[pk].reading_interval # 0
                              THEN devices[pk].reading_interval ELSE NoInterval])

\* a success response that carries the default interval of the column
PostRespondDefaultInterval(r) ==
    LET pk == req[r].device IN
    /\ pc[r] = "refresh"
    /\ UNCHANGED <<db, tokens, now, adm, recording, ota, rate, hist, req>>
    /\ IF pk \notin DOMAIN devices
       THEN Finish(r, Response(500, "error"))
       ELSE Finish(r, [Response(200, "ok") EXCEPT
                          !.received = Len(req[r].rows),
                          !.reading_interval = DefaultReadingInterval])

\* after the commit the object is expired: device.reading_interval reloads the row
\* (ObjectDeletedError, so 500, when it is gone); then the response is built, with
\* the key reading_interval "if device.reading_interval"
PostRespond(r) ==
    LET pk == req[r].device IN
    /\ pc[r] = "refresh"
    /\ UNCHANGED <<db, tokens, now, adm, recording, ota, rate, hist, req>>
    /\ IF pk \notin DOMAIN devices
       THEN Finish(r, Response(500, "error"))
       ELSE Finish(r, [Response(200, "ok") EXCEPT
                          !.received = Len(req[r].rows),
                          !.reading_interval =
                              IF devices[pk].reading_interval # 0
                              THEN devices[pk].reading_interval ELSE NoInterval])

\* the response leaves the server and the worker is free again
Return(r) ==
    /\ pc[r] = "done"
    /\ pc' = [pc EXCEPT ![r] = "idle"]
    /\ req' = [req EXCEPT ![r] = NoReq]
    /\ resp' = [resp EXCEPT ![r] = NoResp]
    /\ UNCHANGED <<db, tokens, now, adm, recording, ota, rate, hist>>

\* ------------------------------------------------------------ administration
\* the response of an administrative operation leaves the server
Answer(response) ==
    /\ adm' = IF recording THEN response ELSE adm
    /\ UNCHANGED recording

\* an approval that creates the record it does not find
ApproveDeviceUpserts(device_id) ==
    LET pk == FindDevice(device_id) IN
    /\ IF pk = NoDevice
       THEN /\ devices' = (nextDeviceId :>
                              [device_id |-> device_id,
                               api_key |-> GeneratePasswordHash(NoKey, nextDeviceId),
                               approved |-> TRUE,
                               firmware_version |-> NoVersion,
                               reading_interval |-> DefaultReadingInterval,
                               last_seen |-> NoTime,
                               last_reading_at |-> NoTime,
                               total_readings |-> 0]) @@ devices
            /\ nextDeviceId' = nextDeviceId + 1
       ELSE /\ devices' = [devices EXCEPT ![pk].approved = TRUE]
            /\ UNCHANGED nextDeviceId
    /\ Answer(AdminResponse("approve", device_id, pk, 200))
    /\ UNCHANGED <<readings, nextReadingId, tokens, now, ota, pc, req, resp, rate, hist>>

\* POST /api/devices/<device_id>/approve
ApproveDevice(device_id) ==
    LET pk == FindDevice(device_id) IN
    /\ devices' = IF pk = NoDevice THEN devices
                  ELSE [devices EXCEPT ![pk].approved = TRUE]
    /\ Answer(AdminResponse("approve", device_id, pk, IF pk = NoDevice THEN 404 ELSE 200))
    /\ UNCHANGED <<readings, nextDeviceId, nextReadingId, tokens, now, ota, pc, req, resp,
                   rate, hist>>

\* an update of the profile that also withdraws the approval
UpdateDeviceUnapproves(device_id, interval) ==
    LET pk == FindDevice(device_id) IN
    /\ devices' = IF pk = NoDevice THEN devices
                  ELSE [devices EXCEPT ![pk].reading_interval = interval,
                                       ![pk].approved = FALSE]
    /\ Answer(AdminResponse("update", device_id, pk, IF pk = NoDevice THEN 404 ELSE 200))
    /\ UNCHANGED <<readings, nextDeviceId, nextReadingId, tokens, now, ota, pc, req, resp,
                   rate, hist>>

\* an update of the profile that also writes the firmware version
UpdateDeviceSetsVersion(device_id, interval) ==
    LET pk == FindDevice(device_id) IN
    /\ devices' = IF pk = NoDevice THEN devices
                  ELSE [devices EXCEPT ![pk].reading_interval = interval,
                                       ![pk].firmware_version = "9.9.9"]
    /\ Answer(AdminResponse("update", device_id, pk, IF pk = NoDevice THEN 404 ELSE 200))
    /\ UNCHANGED <<readings, nextDeviceId, nextReadingId, tokens, now, ota, pc, req, resp,
                   rate, hist>>

\* PUT /api/devices/<device_id> with a reading_interval in the body
UpdateDevice(device_id, interval) ==
    LET pk == FindDevice(device_id) IN
    /\ devices' = IF pk = NoDevice THEN devices
                  ELSE [devices EXCEPT ![pk].reading_interval = interval]
    /\ Answer(AdminResponse("update", device_id, pk, IF pk = NoDevice THEN 404 ELSE 200))
    /\ UNCHANGED <<readings, nextDeviceId, nextReadingId, tokens, now, ota, pc, req, resp,
                   rate, hist>>

\* a removal that leaves the device's readings and update records behind
DeleteDeviceNoCascade(device_id) ==
    LET pk == FindDevice(device_id) IN
    /\ Answer(AdminResponse("delete", device_id, pk, IF pk = NoDevice THEN 404 ELSE 200))
    /\ devices' = [k \in DOMAIN devices \ {pk} |-> devices[k]]
    /\ secretOf' = [k \in DOMAIN secretOf \ {pk} |-> secretOf[k]]
    /\ oldSecrets' = [k \in DOMAIN oldSecrets \ {pk} |-> oldSecrets[k]]
    /\ UNCHANGED <<readings, nextDeviceId, nextReadingId, tokens, now, pc, req, resp, rate,
                   sent, registered, ota>>

\* DELETE /api/devices/<device_id>: the readings and the update records go with the
\* device (cascade); the firmware rows stay.  404 and nothing deleted when no row
\* has the device_id.
DeleteDevice(device_id) ==
    LET pk == FindDevice(device_id) IN
    /\ Answer(AdminResponse("delete", device_id, pk, IF pk = NoDevice THEN 404 ELSE 200))
    /\ devices' = [k \in DOMAIN devices \ {pk} |-> devices[k]]
    /\ readings' = {x \in readings : x.device_id # pk}
    /\ updates' = [u \in {x \in DOMAIN updates : updates[x].device_id # pk} |-> updates[u]]
    /\ secretOf' = [k \in DOMAIN secretOf \ {pk} |-> secretOf[k]]
    /\ oldSecrets' = [k \in DOMAIN oldSecrets \ {pk} |-> oldSecrets[k]]
    /\ UNCHANGED <<nextDeviceId, nextReadingId, tokens, now, pc, req, resp, rate,
                   sent, registered, firmware, nextUpdateId, opc, oreq, oresp>>

\* a regeneration that answers without the new key
DeviceRegenerateKeySilent(pk) ==
    LET new_api_key == TokenHex(tokens + 1) IN
    IF pk \notin DOMAIN devices
    THEN /\ Answer(AdminResponse("regenerate", NoId, pk, 404))
         /\ UNCHANGED <<db, tokens, now, ota, pc, req, resp, rate, hist>>
    ELSE /\ tokens' = tokens + 1
         /\ devices' = [devices EXCEPT ![pk].api_key = Plain(new_api_key)]
         /\ secretOf' = [secretOf EXCEPT ![pk] = new_api_key]
         /\ oldSecrets' = IF pk \in DOMAIN oldSecrets
                          THEN [oldSecrets EXCEPT ![pk] = @ \cup {secretOf[pk]}]
                          ELSE (pk :> {secretOf[pk]}) @@ oldSecrets
         /\ sent' = [sent EXCEPT ![new_api_key] = @ + 1]
         /\ Answer(AdminResponse("regenerate", NoId, pk, 200))
         /\ UNCHANGED <<readings, nextDeviceId, nextReadingId, now, ota, pc, req, resp,
                        rate, registered>>

\* POST /devices/<int:device_id>/regenerate-key: 404 when no row has the primary
\* key; else the new key is assigned to device.api_key as drawn and returned in
\* the response
DeviceRegenerateKey(pk) ==
    LET new_api_key == TokenHex(tokens + 1) IN
    IF pk \notin DOMAIN devices
    THEN /\ Answer(AdminResponse("regenerate", NoId, pk, 404))
         /\ UNCHANGED <<db, tokens, now, ota, pc, req, resp, rate, hist>>
    ELSE /\ tokens' = tokens + 1
         /\ devices' = [devices EXCEPT ![pk].api_key = Plain(new_api_key)]
         /\ secretOf' = [secretOf EXCEPT ![pk] = new_api_key]
         /\ oldSecrets' = IF pk \in DOMAIN oldSecrets
                          THEN [oldSecrets EXCEPT ![pk] = @ \cup {secretOf[pk]}]
                          ELSE (pk :> {secretOf[pk]}) @@ oldSecrets
         /\ sent' = [sent EXCEPT ![new_api_key] = @ + 1]
         /\ Answer([AdminResponse("regenerate", NoId, pk, 200) EXCEPT
                       !.api_key = new_api_key])
         /\ UNCHANGED <<readings, nextDeviceId, nextReadingId, now, ota, pc, req, resp,
                        rate, registered>>

\* a comparison that counts the threshold itself as online
IsOnlineInclusive(last_seen, utcnow, threshold_minutes) ==
    IF last_seen = NoTime THEN FALSE
    ELSE utcnow - last_seen <= threshold_minutes * 60

\* Device.is_online: False without a last_seen; else whether the seconds between
\* last_seen and utcnow are fewer than threshold_minutes * 60 (times in seconds)
IsOnline(last_seen, utcnow, threshold_minutes) ==
    IF last_seen = NoTime THEN FALSE
    ELSE utcnow - last_seen < threshold_minutes * 60

\* a view of the device row pk that reports device.is_online(threshold_minutes)
DeviceIsOnline(pk, threshold_minutes) ==
    /\ pk \in DOMAIN devices
    /\ Answer([AdminResponse("view", devices[pk].device_id, pk, 200) EXCEPT
                  !.threshold_minutes = threshold_minutes,
                  !.is_online = IsOnline(devices[pk].last_seen, now, threshold_minutes)])
    /\ UNCHANGED <<db, tokens, now, ota, pc, req, resp, rate, hist>>

\* ---------------------------------------------------------- firmware catalog
\* a Firmware row is inserted (upload, seed_firmware): the version is unique, the
\* upload time is the clock's, the download counter starts at 0
UploadFirmware(version, active) ==
    /\ Cardinality(DOMAIN firmware) < MaxFirmware
    /\ \A f \in DOMAIN firmware : firmware[f].version # version
    /\ firmware' = (Cardinality(DOMAIN firmware) + 1 :>
                       [version |-> version, active |-> active, uploaded_at |-> now,
                        download_count |-> 0]) @@ firmware
    /\ UNCHANGED <<db, tokens, now, adm, recording, pc, req, resp, rate, hist, updates, nextUpdateId,
                   opc, oreq, oresp>>

\* the latest uploads, whatever their active flag
LatestUploaded ==
    {f \in DOMAIN firmware :
        \A g \in DOMAIN firmware : firmware[g].uploaded_at <= firmware[f].uploaded_at}

\* query(Firmware).filter_by(active=True).order_by(uploaded_at.desc()): the rows
\* .first() can return (the order among equal upload times is the database's)
LatestActive ==
    {f \in DOMAIN firmware :
        /\ firmware[f].active
        /\ \A g \in DOMAIN firmware :
               firmware[g].active => firmware[g].uploaded_at <= firmware[f].uploaded_at}

\* a lookup by version alone, without the active flag
FindFirmwareAnyFlag(version) ==
    IF \E f \in DOMAIN firmware : firmware[f].version = version
    THEN CHOOSE f \in DOMAIN firmware : firmware[f].version = version
    ELSE NoFirmware

\* query(Firmware).filter_by(version=version, active=True).first()
FindFirmware(version) ==
    IF \E f \in DOMAIN firmware : firmware[f].version = version /\ firmware[f].active
    THEN CHOOSE f \in DOMAIN firmware : firmware[f].version = version /\ firmware[f].active
    ELSE NoFirmware

\* a status report that writes to the oldest matching attempt
OldestUpdates(pk, version) ==
    {u \in DOMAIN updates :
        /\ updates[u].device_id = pk
        /\ updates[u].new_version = version
        /\ \A w \in DOMAIN updates :
               (updates[w].device_id = pk /\ updates[w].new_version = version)
                   => updates[u].update_started_at <= updates[w].update_started_at}

\* query(DeviceUpdate).filter_by(device_id=pk, new_version=version)
\* .order_by(update_started_at.desc()): the rows .first() can return
LatestUpdates(pk, version) ==
    {u \in DOMAIN updates :
        /\ updates[u].device_id = pk
        /\ updates[u].new_version = version
        /\ \A w \in DOMAIN updates :
               (updates[w].device_id = pk /\ updates[w].new_version = version)
                   => updates[w].update_started_at <= updates[u].update_started_at}

\* the values of the update_status ENUM column
UpdateStatus == {"pending", "downloading", "success", "failed"}

\* request.args.get('version', '0.0.0')
AbsentVersion == "(absent)"
DefaultVersion == "0.0.0"
CurrentVersion(version) == IF version = AbsentVersion THEN DefaultVersion ELSE version

OtaFinish(r, request, response) ==
    /\ opc' = [opc EXCEPT ![r] = "done"]
    /\ oreq' = [oreq EXCEPT ![r] = request]
    /\ oresp' = [oresp EXCEPT ![r] = response]

\* ------------------------------------------------------------ GET /api/ota/check
\* a check that offers the latest firmware only to approved devices
OtaCheckApprovedOnly(r, device_id, version) ==
    LET pk == FindDevice(device_id)
        current_version == CurrentVersion(version)
        request == [NoOtaReq EXCEPT !.op = "check", !.device_id = device_id,
                                    !.version = version, !.device = pk]
    IN
    /\ opc[r] = "idle"
    /\ UNCHANGED <<db, tokens, now, adm, recording, pc, req, resp, rate, hist, catalog>>
    /\ IF device_id = NoId
       THEN OtaFinish(r, request, OtaError(400, "device_id is required"))
       ELSE IF pk = NoDevice \/ ~devices[pk].approved
       THEN OtaFinish(r, request, OtaError(404, "Device not found"))
       ELSE IF LatestActive = {}
       THEN OtaFinish(r, request,
                [NoOtaResp EXCEPT !.code = 200, !.current_version = current_version,
                                  !.message = "No firmware available"])
       ELSE \E f \in LatestActive :
                LET update_available == firmware[f].version # current_version IN
                OtaFinish(r, request,
                    [NoOtaResp EXCEPT !.code = 200,
                                      !.update_available = update_available,
                                      !.current_version = current_version,
                                      !.new_version = IF update_available
                                                      THEN firmware[f].version
                                                      ELSE NoVersion])

\* a check that compares the catalog with the version stored on the device row
OtaCheckStoredVersion(r, device_id, version) ==
    LET pk == FindDevice(device_id)
        current_version == CurrentVersion(version)
        request == [NoOtaReq EXCEPT !.op = "check", !.device_id = device_id,
                                    !.version = version, !.device = pk]
    IN
    /\ opc[r] = "idle"
    /\ UNCHANGED <<db, tokens, now, adm, recording, pc, req, resp, rate, hist, catalog>>
    /\ IF device_id = NoId
       THEN OtaFinish(r, request, OtaError(400, "device_id is required"))
       ELSE IF pk = NoDevice
       THEN OtaFinish(r, request, OtaError(404, "Device not found"))
       ELSE IF LatestActive = {}
       THEN OtaFinish(r, request,
                [NoOtaResp EXCEPT !.code = 200, !.current_version = current_version,
                                  !.message = "No firmware available"])
       ELSE \E f \in LatestActive :
                LET update_available == firmware[f].version # devices[pk].firmware_version IN
                OtaFinish(r, request,
                    [NoOtaResp EXCEPT !.code = 200,
                                      !.update_available = update_available,
                                      !.current_version = current_version,
                                      !.new_version = IF update_available
                                                      THEN firmware[f].version
                                                      ELSE NoVersion])

\* ota_check: 400 without a device_id, 404 without a device row, else the latest
\* active firmware against the declared version (string inequality); reads only
OtaCheck(r, device_id, version) ==
    LET pk == FindDevice(device_id)
        current_version == CurrentVersion(version)
        request == [NoOtaReq EXCEPT !.op = "check", !.device_id = device_id,
                                    !.version = version, !.device = pk]
    IN
    /\ opc[r] = "idle"
    /\ UNCHANGED <<db, tokens, now, adm, recording, pc, req, resp, rate, hist, catalog>>
    /\ IF device_id = NoId
       THEN OtaFinish(r, request, OtaError(400, "device_id is required"))
       ELSE IF pk = NoDevice
       THEN OtaFinish(r, request, OtaError(404, "Device not found"))
       ELSE IF LatestActive = {}
       THEN OtaFinish(r, request,
                [NoOtaResp EXCEPT !.code = 200, !.current_version = current_version,
                                  !.message = "No firmware available"])
       ELSE \E f \in LatestActive :
                LET update_available == firmware[f].version # current_version IN
                OtaFinish(r, request,
                    [NoOtaResp EXCEPT !.code = 200,
                                      !.update_available = update_available,
                                      !.current_version = current_version,
                                      !.new_version = IF update_available
                                                      THEN firmware[f].version
                                                      ELSE NoVersion])

\* ------------------------------------------------ GET /api/ota/download/<version>
\* the end of ota_download: os.path.exists decides between the file and 404
ServeFile(present) ==
    IF present THEN [NoOtaResp EXCEPT !.code = 200, !.status = "file"]
    ELSE OtaError(404, "Firmware file not found on server")

\* ota_download up to its commit: the firmware row by version and active flag (404
\* without one), then the device row when a device_id is given.  Without a device
\* the file is served and nothing is written.
OtaDownload(r, version, device_id, present) ==
    LET f == FindFirmware(version)
        pk == FindDevice(device_id)
        request == [NoOtaReq EXCEPT !.op = "download", !.device_id = device_id,
                                    !.version = version]
    IN
    /\ opc[r] = "idle"
    /\ UNCHANGED <<db, tokens, now, adm, recording, pc, req, resp, rate, hist, catalog>>
    /\ IF f = NoFirmware
       THEN OtaFinish(r, request, OtaError(404, "Firmware not found"))
       ELSE IF device_id = NoId \/ pk = NoDevice
       THEN OtaFinish(r, [request EXCEPT !.firmware = f], ServeFile(present))
       ELSE /\ opc' = [opc EXCEPT ![r] = "download"]
            /\ oreq' = [oreq EXCEPT ![r] =
                   [request EXCEPT !.device = pk, !.firmware = f,
                                   !.previous_version = devices[pk].firmware_version,
                                   !.download_count = firmware[f].download_count]]
            /\ UNCHANGED oresp

NewDeviceUpdate(r) ==
    [device_id |-> oreq[r].device,
     firmware_id |-> oreq[r].firmware,
     previous_version |-> oreq[r].previous_version,
     new_version |-> oreq[r].version,
     update_started_at |-> now,
     update_completed_at |-> NoTime,
     status |-> "downloading",
     error_message |-> NoMessage]

\* session.commit() of ota_download: INSERT INTO device_updates and UPDATE firmware
\* SET download_count = (the loaded value + 1).  The INSERT fails on its foreign key
\* when the device row is gone (500, nothing written).  Then the file is looked up.
OtaDownloadCommit(r, present) ==
    /\ opc[r] = "download"
    /\ UNCHANGED <<db, tokens, now, adm, recording, pc, req, resp, rate, hist>>
    /\ IF oreq[r].device \notin DOMAIN devices
       THEN /\ OtaFinish(r, oreq[r], OtaError(500, "Internal server error"))
            /\ UNCHANGED catalog
       ELSE /\ updates' = (nextUpdateId :> NewDeviceUpdate(r)) @@ updates
            /\ nextUpdateId' = nextUpdateId + 1
            /\ firmware' = [firmware EXCEPT ![oreq[r].firmware].download_count =
                                                oreq[r].download_count + 1]
            /\ OtaFinish(r, oreq[r], ServeFile(present))

\* ---------------------------------------------------------- POST /api/ota/status
\* the row the report writes: status, completion time, and the error message when
\* the report carries one
Reported(row, status, error_message) ==
    [row EXCEPT !.status = status,
                !.update_completed_at = now,
                !.error_message = IF error_message # NoMessage THEN error_message ELSE @]

\* a report that moves the device to the reported version on every status
ReportedDevicesAnyStatus(pk, version, status) ==
    [devices EXCEPT ![pk].firmware_version = version]

\* if status == 'success': device.firmware_version = version
ReportedDevices(pk, version, status) ==
    IF status = "success"
    THEN [devices EXCEPT ![pk].firmware_version = version]
    ELSE devices

\* a report that is refused when the device has no attempt for the version
OtaStatusStrict(r, device_id, version, status, error_message) ==
    LET pk == FindDevice(device_id)
        request == [NoOtaReq EXCEPT !.op = "status", !.device_id = device_id,
                                    !.version = version, !.status = status,
                                    !.error_message = error_message, !.device = pk]
        ok == [NoOtaResp EXCEPT !.code = 200, !.status = "ok",
                                !.message = "Update status recorded"]
    IN
    /\ opc[r] = "idle"
    /\ UNCHANGED <<readings, nextDeviceId, nextReadingId, tokens, now, adm, recording, pc, req, resp,
                   rate, hist, firmware, nextUpdateId>>
    /\ IF device_id = NoId \/ version = NoVersion \/ status = ""
       THEN /\ OtaFinish(r, request, OtaError(400, "Missing required fields"))
            /\ UNCHANGED <<devices, updates>>
       ELSE IF pk = NoDevice \/ LatestUpdates(pk, version) = {}
       THEN /\ OtaFinish(r, request, OtaError(404, "Device not found"))
            /\ UNCHANGED <<devices, updates>>
       ELSE IF status \notin UpdateStatus
       THEN /\ OtaFinish(r, request, OtaError(500, "Internal server error"))
            /\ UNCHANGED <<devices, updates>>
       ELSE \E u \in LatestUpdates(pk, version) :
                /\ OtaFinish(r, request, ok)
                /\ devices' = ReportedDevices(pk, version, status)
                /\ updates' = [updates EXCEPT ![u] = Reported(@, status, error_message)]

\* ota_status: 400 when device_id, version or status is missing, 404 without a
\* device row; the latest attempt for (device, version), when there is one, takes
\* the reported status as it is (a value outside the ENUM fails the UPDATE: 500,
\* nothing written); status success sets the device's firmware_version; 200 ok
OtaStatus(r, device_id, version, status, error_message) ==
    LET pk == FindDevice(device_id)
        request == [NoOtaReq EXCEPT !.op = "status", !.device_id = device_id,
                                    !.version = version, !.status = status,
                                    !.error_message = error_message, !.device = pk]
        ok == [NoOtaResp EXCEPT !.code = 200, !.status = "ok",
                                !.message = "Update status recorded"]
    IN
    /\ opc[r] = "idle"
    /\ UNCHANGED <<readings, nextDeviceId, nextReadingId, tokens, now, adm, recording, pc, req, resp,
                   rate, hist, firmware, nextUpdateId>>
    /\ IF device_id = NoId \/ version = NoVersion \/ status = ""
       THEN /\ OtaFinish(r, request, OtaError(400, "Missing required fields"))
            /\ UNCHANGED <<devices, updates>>
       ELSE IF pk = NoDevice
       THEN /\ OtaFinish(r, request, OtaError(404, "Device not found"))
            /\ UNCHANGED <<devices, updates>>
       ELSE IF LatestUpdates(pk, version) = {}
       THEN /\ OtaFinish(r, request, ok)
            /\ devices' = ReportedDevices(pk, version, status)
            /\ UNCHANGED updates
       ELSE IF status \notin UpdateStatus
       THEN /\ OtaFinish(r, request, OtaError(500, "Internal server error"))
            /\ UNCHANGED <<devices, updates>>
       ELSE \E u \in LatestUpdates(pk, version) :
                /\ OtaFinish(r, request, ok)
                /\ devices' = ReportedDevices(pk, version, status)
                /\ updates' = [updates EXCEPT ![u] = Reported(@, status, error_message)]

\* the OTA response leaves the server and the worker is free again
OtaReturn(r) ==
    /\ opc[r] = "done"
    /\ opc' = [opc EXCEPT ![r] = "idle"]
    /\ oreq' = [oreq EXCEPT ![r] = NoOtaReq]
    /\ oresp' = [oresp EXCEPT ![r] = NoOtaResp]
    /\ UNCHANGED <<db, tokens, now, adm, recording, pc, req, resp, rate, hist, catalog>>

\* ------------------------------------------------------------- environment
\* the limiter's one-minute window ends: its counters start again
WindowReset ==
    /\ \E k \in LimitKeys : issued[k] > 0
    /\ limiter' = [k \in LimitKeys |-> 0]
    /\ issued' = [k \in LimitKeys |-> 0]
    /\ reached' = [k \in LimitKeys |-> 0]
    /\ UNCHANGED <<db, tokens, now, adm, recording, ota, pc, req, resp, hist>>

\* the server clock advances
Tick ==
    /\ now < MaxTime
    /\ now' = now + 1
    /\ UNCHANGED <<db, tokens, pc, req, resp, rate, hist, ota, adm, recording>>

\* ---------------------------------------------------------- specifications
PendingDraws == Cardinality({r \in Slots : pc[r] = "register" /\ req[r].data.api_key = NoKey})

\* the keys a client can present: none, one of its own, or one a response carried
KnownKeys == {NoKey} \cup ClientKeys \cup {TokenHex(n) : n \in 1..tokens}

\* the counters of the tables and of the token draws stay within the bounds
WithinBounds(data) ==
    /\ FindDevice(data.device_id) = NoDevice =>
          /\ nextDeviceId + PendingDevices <= MaxDevicePk
          /\ data.api_key = NoKey => tokens + PendingDraws < MaxTokens
    /\ nextReadingId - 1 + PendingRows + Len(AcceptedRows(data.readings)) <= MaxReadingRows

Payloads(ids, keys, versions, batches) ==
    [device_id : ids, api_key : keys, firmware_version : versions, readings : batches]

MainBatches == {<<>>, <<GoodItem>>, <<ZeroItem, NoUnitItem>>, <<NonNumericItem>>}

\* one worker; every operation on one device identifier, interleaved with the
\* administration between the worker's database accesses
Submit(r) ==
    \E data \in Payloads({"esp32-a"}, KnownKeys, {NoVersion}, MainBatches) :
        /\ WithinBounds(data)
        /\ limiter[GetRateLimitKey(data)] < MaxHits
        /\ PostBegin(r, data)

Regenerate ==
    \E pk \in DOMAIN devices : tokens + PendingDraws < MaxTokens /\ DeviceRegenerateKey(pk)

Next ==
    \/ Submit(1)
    \/ RegisterCommit(1)
    \/ PostCommit(1)
    \/ PostRespond(1)
    \/ Return(1)
    \/ ApproveDevice("esp32-a")
    \/ UpdateDevice("esp32-a", 30000)
    \/ DeleteDevice("esp32-a")
    \/ Regenerate
    \/ WindowReset

Spec == Init /\ [][Next]_vars

\* one worker and one approved-to-be device: every readings array up to MaxBatch
SubmitBatch(r) ==
    \E data \in Payloads({"esp32-a"}, {[src |-> "client", n |-> 1]}, {NoVersion},
                         SeqsUpTo(Items, MaxBatch)) :
        /\ WithinBounds(data)
        /\ limiter[GetRateLimitKey(data)] < MaxHits
        /\ PostBegin(r, data)

NextBatch ==
    \/ SubmitBatch(1)
    \/ RegisterCommit(1)
    \/ PostCommit(1)
    \/ PostRespond(1)
    \/ Return(1)
    \/ ApproveDevice("esp32-a")
    \/ WindowReset

SpecBatch == Init /\ [][NextBatch]_vars

\* request-parallel submissions for one device identifier, and its approval
SubmitRace(r) ==
    \E data \in Payloads({"esp32-a"}, {NoKey, [src |-> "client", n |-> 1]}, {NoVersion},
                         {<<GoodItem>>}) :
        /\ WithinBounds(data)
        /\ limiter[GetRateLimitKey(data)] < MaxHits
        /\ PostBegin(r, data)

NextRace ==
    \/ \E r \in Slots : SubmitRace(r)
    \/ \E r \in Slots : RegisterCommit(r)
    \/ \E r \in Slots : PostCommit(r)
    \/ \E r \in Slots : PostRespond(r)
    \/ \E r \in Slots : Return(r)
    \/ ApproveDevice("esp32-a")
    \/ WindowReset

SpecRace == Init /\ [][NextRace]_vars

\* one worker, the limiter's budget used up to its end within one window
SubmitRate(r) ==
    \E data \in Payloads({"esp32-a", NoId}, {NoKey}, {NoVersion}, {<<>>, <<GoodItem>>}) :
        /\ WithinBounds(data)
        /\ issued[GetRateLimitKey(data)] < MaxIssued
        /\ PostBegin(r, data)

NextRate ==
    \/ SubmitRate(1)
    \/ RegisterCommit(1)
    \/ Return(1)
    \/ WindowReset

SpecRate == Init /\ [][NextRate]_vars

\* ---- the OTA endpoints
OtaDeviceIds == {"esp32-a", "esp32-b", NoId}
Declared == Versions \cup {"9.9.9", AbsentVersion}
Messages == {NoMessage, "flash write failed"}

\* the bodies of POST /api/ota/status: every status value for a known and an unknown
\* device, and one body for each missing field
Reports ==
    [device_id : {"esp32-a", "esp32-b"}, version : Versions,
     status : {"success", "failed", "pending", "bogus"}, error_message : Messages]
    \cup {[device_id |-> NoId, version |-> "1.0.0", status |-> "success",
           error_message |-> NoMessage],
          [device_id |-> "esp32-a", version |-> NoVersion, status |-> "success",
           error_message |-> NoMessage],
          [device_id |-> "esp32-a", version |-> "1.0.0", status |-> "",
           error_message |-> NoMessage]}

PendingDownloads == Cardinality({r \in Slots : opc[r] = "download"})

\* the first contact of esp32-a, which creates its device row
FirstContact(r) ==
    \E data \in Payloads({"esp32-a"}, {[src |-> "client", n |-> 1]}, {NoVersion},
                         {<<GoodItem>>}) :
        /\ FindDevice(data.device_id) = NoDevice
        /\ WithinBounds(data)
        /\ limiter[GetRateLimitKey(data)] < MaxHits
        /\ PostBegin(r, data)

Check(r) ==
    \E device_id \in OtaDeviceIds : \E version \in Declared :
        OtaCheck(r, device_id, version)

Download(r) ==
    \E version \in Versions : \E device_id \in OtaDeviceIds : \E present \in BOOLEAN :
        /\ nextUpdateId + PendingDownloads <= MaxUpdates
        /\ OtaDownload(r, version, device_id, present)

DownloadCommit(r) == \E present \in BOOLEAN : OtaDownloadCommit(r, present)

Report(r) ==
    \E body \in Reports :
        OtaStatus(r, body.device_id, body.version, body.status, body.error_message)

\* the catalog of SpecOta: 1.0.0 is uploaded active, 1.0.1 inactive
Upload == UploadFirmware("1.0.0", TRUE) \/ UploadFirmware("1.0.1", FALSE)

\* one OTA worker against one device identifier with a record and one without:
\* downloads and status reports
NextOta ==
    \/ FirstContact(1)
    \/ RegisterCommit(1)
    \/ Return(1)
    \/ DeleteDevice("esp32-a")
    \/ Upload
    \/ Download(1)
    \/ DownloadCommit(1)
    \/ Report(1)
    \/ OtaReturn(1)

SpecOta == Init /\ [][NextOta]_vars

\* every catalog of up to MaxFirmware versions
UploadAny == \E version \in Versions : \E active \in BOOLEAN : UploadFirmware(version, active)

\* one OTA worker checking for updates against every catalog, with the clock and
\* the approval of the device
NextCheck ==
    \/ FirstContact(1)
    \/ RegisterCommit(1)
    \/ Return(1)
    \/ ApproveDevice("esp32-a")
    \/ UploadAny
    \/ Tick
    \/ Check(1)
    \/ OtaReturn(1)

SpecCheck == Init /\ [][NextCheck]_vars

\* the first contacts of the two device identifiers, esp32-a first
FirstContactAny(r) ==
    \E data \in Payloads(DeviceIds, {[src |-> "client", n |-> 1]}, {NoVersion},
                         {<<GoodItem>>}) :
        /\ now = 0
        /\ FindDevice(data.device_id) = NoDevice
        /\ data.device_id = "esp32-b" => FindDevice("esp32-a") # NoDevice
        /\ WithinBounds(data)
        /\ limiter[GetRateLimitKey(data)] < MaxHits
        /\ PostBegin(r, data)

\* esp32-a downloads either version, esp32-b the version esp32-a reports on
DownloadAttempt(r) ==
    \E version \in Versions : \E device_id \in DeviceIds :
        /\ nextUpdateId + PendingDownloads <= MaxAttempts
        /\ device_id = "esp32-b" => version = "1.0.0"
        /\ OtaDownload(r, version, device_id, FALSE)

DownloadAttemptCommit(r) == OtaDownloadCommit(r, FALSE)

ReportAttempt(r) == OtaStatus(r, "esp32-a", "1.0.0", "failed", "flash write failed")

\* both versions are uploaded active at time 0, 1.0.0 first
UploadActive ==
    /\ now = 0
    /\ \/ UploadFirmware("1.0.0", TRUE)
       \/ firmware # <<>> /\ UploadFirmware("1.0.1", TRUE)

\* histories of attempts: two devices and the active firmware from time 0, then the
\* clock, repeated downloads of a version and esp32-a's failure reports for 1.0.0
NextAttempts ==
    \/ FirstContactAny(1)
    \/ RegisterCommit(1)
    \/ Return(1)
    \/ UploadActive
    \/ Tick
    \/ DownloadAttempt(1)
    \/ DownloadAttemptCommit(1)
    \/ ReportAttempt(1)
    \/ OtaReturn(1)

SpecAttempts == Init /\ [][NextAttempts]_vars

DownloadRace(r) ==
    \E present \in BOOLEAN :
        /\ nextUpdateId + PendingDownloads <= MaxAttempts
        /\ OtaDownload(r, "1.0.0", "esp32-a", present)

\* request-parallel downloads of one active version by one device
NextOtaRace ==
    \/ FirstContact(1)
    \/ RegisterCommit(1)
    \/ Return(1)
    \/ UploadFirmware("1.0.0", TRUE)
    \/ \E r \in Slots : DownloadRace(r)
    \/ \E r \in Slots : DownloadCommit(r)
    \/ \E r \in Slots : OtaReturn(r)

SpecOtaRace == Init /\ [][NextOtaRace]_vars

SubmitLife(r) ==
    \E data \in Payloads({"esp32-a"}, {[src |-> "client", n |-> 1]}, {NoVersion},
                         {<<GoodItem>>}) :
        /\ WithinBounds(data)
        /\ limiter[GetRateLimitKey(data)] < MaxHits
        /\ PostBegin(r, data)

DownloadLife(r) ==
    /\ nextUpdateId + PendingDownloads <= MaxUpdates
    /\ OtaDownload(r, "1.0.0", "esp32-a", FALSE)

ReportLife(r) == OtaStatus(r, "esp32-a", "1.0.0", "success", NoMessage)

\* the life of one device record within one limiter window: first contact, approval,
\* submissions, the OTA endpoints and the administration (profile, new key, removal)
NextLife ==
    \/ SubmitLife(1)
    \/ RegisterCommit(1)
    \/ PostCommit(1)
    \/ PostRespond(1)
    \/ Return(1)
    \/ ApproveDevice("esp32-a")
    \/ UpdateDevice("esp32-a", 30000)
    \/ DeleteDevice("esp32-a")
    \/ Regenerate
    \/ UploadFirmware("1.0.0", TRUE)
    \/ OtaCheck(1, "esp32-a", "1.0.0")
    \/ DownloadLife(1)
    \/ OtaDownloadCommit(1, FALSE)
    \/ ReportLife(1)
    \/ OtaReturn(1)

SpecLife == Init /\ [][NextLife]_vars

\* ---- the administration, with its responses recorded
SubmitAdmin(r) ==
    \E data \in Payloads({"esp32-a"}, KnownKeys, {NoVersion}, {<<GoodItem>>}) :
        /\ WithinBounds(data)
        /\ limiter[GetRateLimitKey(data)] < MaxHits
        /\ PostBegin(r, data)

\* a new key for any primary key the table has ever had or not
RegenerateAny ==
    \E pk \in 1..MaxDevicePk :
        /\ pk \in DOMAIN devices => tokens + PendingDraws < MaxTokens
        /\ DeviceRegenerateKey(pk)

\* the administration applied to a device identifier that has a record at times
\* and has none before its first contact and after its removal, and to any primary
\* key, next to the submissions with every key a client can present and the OTA
\* requests of the device
NextAdmin ==
    \/ SubmitAdmin(1)
    \/ RegisterCommit(1)
    \/ PostCommit(1)
    \/ PostRespond(1)
    \/ Return(1)
    \/ ApproveDevice("esp32-a")
    \/ UpdateDevice("esp32-a", 30000)
    \/ DeleteDevice("esp32-a")
    \/ RegenerateAny
    \/ OtaCheck(1, "esp32-a", "1.0.0")
    \/ ReportLife(1)
    \/ OtaReturn(1)

SpecAdmin == InitRecording /\ [][NextAdmin]_vars

\* ---- the firmware version of a device record
\* submissions that declare a firmware version or none
SubmitVersion(r) ==
    \E data \in Payloads({"esp32-a"}, {[src |-> "client", n |-> 1]},
                         {NoVersion, "1.0.1"}, {<<GoodItem>>}) :
        /\ WithinBounds(data)
        /\ limiter[GetRateLimitKey(data)] < MaxHits
        /\ PostBegin(r, data)

ReportVersion(r) ==
    \E status \in {"success", "failed"} : OtaStatus(r, "esp32-a", "1.0.0", status, NoMessage)

\* every writer of a device row: submissions with a declared version, the
\* administration, downloads and status reports
NextVersion ==
    \/ SubmitVersion(1)
    \/ RegisterCommit(1)
    \/ PostCommit(1)
    \/ PostRespond(1)
    \/ Return(1)
    \/ ApproveDevice("esp32-a")
    \/ UpdateDevice("esp32-a", 30000)
    \/ DeleteDevice("esp32-a")
    \/ Regenerate
    \/ UploadFirmware("1.0.0", TRUE)
    \/ DownloadLife(1)
    \/ OtaDownloadCommit(1, FALSE)
    \/ ReportVersion(1)
    \/ OtaReturn(1)

SpecVersion == Init /\ [][NextVersion]_vars

\* ---- the credential of a device record
\* every operation on one device record: submissions with every key a client can
\* present, the administration and the OTA endpoints
NextCredential ==
    \/ SubmitAdmin(1)
    \/ RegisterCommit(1)
    \/ PostCommit(1)
    \/ PostRespond(1)
    \/ Return(1)
    \/ ApproveDevice("esp32-a")
    \/ UpdateDevice("esp32-a", 30000)
    \/ DeleteDevice("esp32-a")
    \/ Regenerate
    \/ UploadFirmware("1.0.0", TRUE)
    \/ OtaCheck(1, "esp32-a", "1.0.0")
    \/ DownloadLife(1)
    \/ OtaDownloadCommit(1, FALSE)
    \/ ReportLife(1)
    \/ OtaReturn(1)

SpecCredential == Init /\ [][NextCredential]_vars

\* ---- requests that are refused before the device is looked up
SubmitBody(r) ==
    \E data \in Payloads({"esp32-a", NoId}, {NoKey, [src |-> "client", n |-> 1]},
                         {NoVersion}, {<<>>, <<GoodItem>>}) :
        /\ WithinBounds(data)
        /\ limiter[GetRateLimitKey(data)] < MaxHits
        /\ PostBegin(r, data)

SubmitUnparsed(r) ==
    \E is_json \in BOOLEAN :
        /\ limiter[<<"ip", RemoteAddr>>] < MaxHits
        /\ PostUnparsed(r, is_json)

\* bodies with and without a device_id and a readings array, and bodies that are no
\* JSON, for a device_id before and after its first contact
NextBody ==
    \/ SubmitBody(1)
    \/ SubmitUnparsed(1)
    \/ RegisterCommit(1)
    \/ PostCommit(1)
    \/ PostRespond(1)
    \/ Return(1)
    \/ ApproveDevice("esp32-a")
    \/ DeleteDevice("esp32-a")
    \/ WindowReset

SpecBody == Init /\ [][NextBody]_vars

\* ---- the limiter's keys
\* requests of two device identifiers and, a few, without one, all from one address;
\* their readings arrays are empty, so that the limiter is all they exercise
SubmitKeys(r) ==
    \E data \in Payloads({"esp32-a", "esp32-b", NoId}, {NoKey}, {NoVersion}, {<<>>}) :
        /\ issued[GetRateLimitKey(data)] < MaxIssued
        /\ data.device_id = NoId => issued[GetRateLimitKey(data)] < MaxHits
        /\ PostBegin(r, data)

NextKeys ==
    \/ SubmitKeys(1)
    \/ Return(1)
    \/ WindowReset

SpecKeys == Init /\ [][NextKeys]_vars

\* ---- refused submissions
\* submissions with every key a client can present and a declared firmware version
\* or none, under a moving clock, before and after the approval of the device
SubmitRefused(r) ==
    \E data \in Payloads({"esp32-a"}, KnownKeys, {NoVersion, "1.0.1"}, {<<GoodItem>>}) :
        /\ WithinBounds(data)
        /\ limiter[GetRateLimitKey(data)] < MaxHits
        /\ PostBegin(r, data)

NextRefused ==
    \/ SubmitRefused(1)
    \/ RegisterCommit(1)
    \/ PostCommit(1)
    \/ PostRespond(1)
    \/ Return(1)
    \/ ApproveDevice("esp32-a")
    \/ WindowReset
    \/ Tick

SpecRefused == Init /\ [][NextRefused]_vars

\* ---- duplicate status reports
\* worker 1 builds the history (the device, the firmware, the clock, its downloads of
\* 1.0.0) and sends a report; worker 2 handles the duplicate of that report, which
\* arrives after the report was answered and before anything else happens
Settled == opc[1] # "done" /\ opc[2] = "idle"

FirstContactDuplicate == Settled /\ FirstContact(1)

UploadDuplicate == Settled /\ UploadFirmware("1.0.0", TRUE)

TickDuplicate == Settled /\ Tick

DownloadDuplicate ==
    /\ nextUpdateId + PendingDownloads <= MaxAttempts
    /\ OtaDownload(1, "1.0.0", "esp32-a", FALSE)

ReportFirst ==
    \E status \in {"success", "failed"} : \E error_message \in Messages :
        /\ pc[1] = "idle"
        /\ OtaStatus(1, "esp32-a", "1.0.0", status, error_message)

ReportAgain ==
    /\ opc[1] = "done"
    /\ oreq[1].op = "status"
    /\ OtaStatus(2, oreq[1].device_id, oreq[1].version, oreq[1].status,
                 oreq[1].error_message)

NextDuplicate ==
    \/ FirstContactDuplicate
    \/ RegisterCommit(1)
    \/ Return(1)
    \/ UploadDuplicate
    \/ TickDuplicate
    \/ DownloadDuplicate
    \/ OtaDownloadCommit(1, FALSE)
    \/ ReportFirst
    \/ ReportAgain
    \/ opc[2] = "idle" /\ OtaReturn(1)
    \/ OtaReturn(2)

SpecDuplicate == Init /\ [][NextDuplicate]_vars

\* ---- the timestamps of the readings
\* one worker and one approved-to-be device under a moving clock: every array up to
\* MaxBatch of well-formed readings with and without a timestamp
SubmitStamped(r) ==
    \E data \in Payloads({"esp32-a"}, {[src |-> "client", n |-> 1]}, {NoVersion},
                         SeqsUpTo(StampedItems, MaxBatch)) :
        /\ WithinBounds(data)
        /\ limiter[GetRateLimitKey(data)] < MaxHits
        /\ PostBegin(r, data)

NextStamped ==
    \/ SubmitStamped(1)
    \/ RegisterCommit(1)
    \/ PostCommit(1)
    \/ PostRespond(1)
    \/ Return(1)
    \/ ApproveDevice("esp32-a")
    \/ WindowReset
    \/ Tick

SpecStamped == Init /\ [][NextStamped]_vars

\* ---- the reporting interval of a device
\* the values PUT /api/devices/<device_id> assigns: none (0) or 30 seconds
Intervals == {0, 30000}

UpdateInterval == \E interval \in Intervals : UpdateDevice("esp32-a", interval)

\* one worker and one device under a moving clock: its submissions, its approval,
\* its removal and the changes of its reading_interval, also between a submission's
\* commit and its response
NextInterval ==
    \/ SubmitLife(1)
    \/ RegisterCommit(1)
    \/ PostCommit(1)
    \/ PostRespond(1)
    \/ Return(1)
    \/ ApproveDevice("esp32-a")
    \/ UpdateInterval
    \/ DeleteDevice("esp32-a")
    \/ WindowReset
    \/ Tick

SpecInterval == Init /\ [][NextInterval]_vars

\* ---- Device.is_online
\* one device row, registered with a client key, that was last seen at any second up
\* to MaxSeen or never, under a server clock at any second up to MaxClock
InitOnline ==
    /\ \E last_seen \in {NoTime} \cup 0..MaxSeen :
           devices = (1 :> [device_id |-> "esp32-a",
                            api_key |-> GeneratePasswordHash([src |-> "client", n |-> 1], 1),
                            approved |-> FALSE,
                            firmware_version |-> NoVersion,
                            reading_interval |-> DefaultReadingInterval,
                            last_seen |-> last_seen,
                            last_reading_at |-> NoTime,
                            total_readings |-> 0])
    /\ now \in 0..MaxClock
    /\ readings = {}
    /\ nextDeviceId = 2
    /\ nextReadingId = 1
    /\ tokens = 0
    /\ limiter = [k \in LimitKeys |-> 0]
    /\ pc = [r \in Slots |-> "idle"]
    /\ req = [r \in Slots |-> NoReq]
    /\ resp = [r \in Slots |-> NoResp]
    /\ secretOf = (1 :> [src |-> "client", n |-> 1])
    /\ oldSecrets = <<>>
    /\ sent = [s \in AllSecrets |-> IF s = [src |-> "client", n |-> 1] THEN 1 ELSE 0]
    /\ registered = [d \in DeviceIds |-> IF d = "esp32-a" THEN 1 ELSE 0]
    /\ issued = [k \in LimitKeys |-> 0]
    /\ reached = [k \in LimitKeys |-> 0]
    /\ firmware = <<>>
    /\ updates = <<>>
    /\ nextUpdateId = 1
    /\ opc = [r \in Slots |-> "idle"]
    /\ oreq = [r \in Slots |-> NoOtaReq]
    /\ oresp = [r \in Slots |-> NoOtaResp]
    /\ adm = NoAdm
    /\ recording = TRUE

\* the views of the device with every threshold up to MaxThreshold minutes
NextOnline ==
    \E pk \in DOMAIN devices : \E threshold_minutes \in 0..MaxThreshold :
        DeviceIsOnline(pk, threshold_minutes)

SpecOnline == InitOnline /\ [][NextOnline]_vars

\* ------------------------------------------------------------------ claims
\* a submitReadings call starts on worker r in this step
Arrives(r) == pc[r] = "idle" /\ pc'[r] # "idle"

\* ... passes the limiter and carries a device_id and a non-empty readings array
Admitted(r) ==
    /\ Arrives(r)
    /\ resp'[r].code # 429
    /\ req'[r].data.device_id # NoId
    /\ req'[r].data.readings # <<>>

\* ... for a device that has a record when the call queries it
Existing(r) == Admitted(r) /\ FindDevice(req'[r].data.device_id) # NoDevice

\* the secret the call presents is the one last issued for the device
PresentsSecret(r) ==
    req'[r].data.api_key = secretOf[FindDevice(req'[r].data.device_id)]

TargetApproved(r) == devices[FindDevice(req'[r].data.device_id)].approved

\* C1: a call with the device's correct secret for an unapproved device is answered
\* 403 pending_approval and writes nothing (no Reading, no change of any device row);
\* and every Reading row belongs to a device that is approved.
C1_UnapprovedWritesNothing ==
    /\ [](\A x \in readings :
              x.device_id \in DOMAIN devices /\ devices[x.device_id].approved)
    /\ [][\A r \in Slots :
              (Existing(r) /\ PresentsSecret(r) /\ ~TargetApproved(r)) =>
                  /\ resp'[r].code = 403
                  /\ resp'[r].status = "pending_approval"
                  /\ readings' = readings
                  /\ devices' = devices]_vars

\* C3: for an existing device a secret that is not the device's is answered 401, and
\* the device's secret on an unapproved device is answered 403.
C3_WrongSecret401 ==
    [][\A r \in Slots :
          Existing(r) =>
              /\ ~PresentsSecret(r) => resp'[r].code = 401
              /\ (PresentsSecret(r) /\ ~TargetApproved(r)) => resp'[r].code = 403]_vars

\* C5: the credential stored on every device row is a hash of the device's secret,
\* never the secret itself.
C5_CredentialIsHash ==
    \A pk \in DOMAIN devices :
        /\ devices[pk].api_key.kind = "bcrypt"
        /\ devices[pk].api_key.secret = secretOf[pk]

\* C6: after a regeneration on an approved device, a call presenting the new secret
\* is authenticated (it goes on to persist its batch) and a call presenting a
\* replaced secret is answered 401.
C6_RegeneratedSecretWorks ==
    [][\A r \in Slots :
          LET pk == FindDevice(req'[r].data.device_id) IN
          (Existing(r) /\ TargetApproved(r) /\ pk \in DOMAIN oldSecrets
             /\ ~LoopRaises(req'[r].data.readings)) =>
              /\ PresentsSecret(r) => pc'[r] = "commit"
              /\ (~PresentsSecret(r) /\ req'[r].data.api_key \in oldSecrets[pk])
                     => resp'[r].code = 401]_vars

\* an item is well-formed when it has a sensor name, a numeric value and a unit
WellFormed(item) == item.sensor # "" /\ item.value.t = "num" /\ item.unit # ""

RECURSIVE CountWellFormed(_)
CountWellFormed(items) ==
    IF items = <<>> THEN 0
    ELSE (IF WellFormed(Head(items)) THEN 1 ELSE 0) + CountWellFormed(Tail(items))

\* C2: for an approved device and the correct secret, a batch of N well-formed and M
\* malformed items (N + M >= 1) is never answered with an error: it persists exactly N
\* Reading rows, adds N to total_readings and is answered ok with received = N.
C2_BatchCounts ==
    [][\A r \in Slots :
          LET n == CountWellFormed(req'[r].data.readings)
              pk == req[r].device
          IN
          /\ (Existing(r) /\ PresentsSecret(r) /\ TargetApproved(r)) =>
                 pc'[r] = "commit" /\ Len(req'[r].rows) = n
          /\ (pc[r] = "commit" /\ pc'[r] # "commit") =>
                 /\ pc'[r] = "refresh"
                 /\ Cardinality(readings') = Cardinality(readings) + n
                 /\ devices'[pk].total_readings = devices[pk].total_readings + n
          /\ (pc[r] = "refresh" /\ pc'[r] # "refresh") =>
                 /\ resp'[r].code = 200
                 /\ resp'[r].status = "ok"
                 /\ resp'[r].received = n]_vars

\* C4 as stated: the first call for an unseen device_id always returns a registration
\* response with a freshly generated secret, and no secret is carried by two responses.
C4_FreshSecretAlways ==
    /\ [](\A s \in AllSecrets : sent[s] <= 1)
    /\ [][\A r \in Slots :
              (pc[r] = "register" /\ pc'[r] # "register") =>
                  /\ resp'[r].status = "registered"
                  /\ resp'[r].api_key.src = "server"]_vars

\* C4 amended: an admitted, well-formed call for a device_id without a record takes the
\* registration path; when its registration commits, the response is the registration
\* response, its secret is the presented api_key when there is one and else a key no
\* response carried before, and exactly one device row is added, unapproved, holding a
\* hash of that secret; no other response of submitReadings carries a secret.  (A
\* client that presents an issued secret at a later first contact gets it back.)
C4_RegistrationSecretOnce ==
    /\ [](\A r \in Slots : resp[r].api_key # NoKey => resp[r].status = "registered")
    /\ [][\A r \in Slots :
              /\ (Admitted(r) /\ FindDevice(req'[r].data.device_id) = NoDevice) =>
                     pc'[r] = "register" /\ devices' = devices
              /\ (pc[r] = "register" /\ pc'[r] # "register" /\ resp'[r].code = 200) =>
                     LET k == resp'[r].api_key
                         presented == req[r].data.api_key
                     IN
                     /\ resp'[r].status = "registered"
                     /\ IF presented = NoKey THEN k.src = "server" /\ sent[k] = 0
                        ELSE k = presented
                     /\ \E pk \in DOMAIN devices' :
                            /\ DOMAIN devices' = DOMAIN devices \cup {pk}
                            /\ pk \notin DOMAIN devices
                            /\ devices'[pk].device_id = req[r].data.device_id
                            /\ ~devices'[pk].approved
                            /\ devices'[pk].api_key.kind = "bcrypt"
                            /\ devices'[pk].api_key.secret = k]_vars

\* a registration response carrying a key the server drew
C4_Witness ==
    \E r \in Slots :
        /\ pc[r] = "done"
        /\ resp[r].status = "registered"
        /\ resp[r].api_key.src = "server"
        /\ req[r].data.api_key = NoKey

\* C7: the device_id of a device row is unique; of the calls that raced through the
\* first-contact path for one device_id exactly one is answered with the registration
\* response, every other one fails (500) and adds no row; a call that finds the record
\* is an authentication attempt against the stored credential, never a registration.
C7_OneRegistrationWins ==
    /\ [](\A p1 \in DOMAIN devices : \A p2 \in DOMAIN devices :
              devices[p1].device_id = devices[p2].device_id => p1 = p2)
    /\ [](\A d \in DeviceIds :
              registered[d] <= 1 /\ (registered[d] = 1 <=> FindDevice(d) # NoDevice))
    /\ [](\A r \in Slots :
              (pc[r] = "done" /\ req[r].device = NoDevice /\ resp[r].code = 500) =>
                  /\ registered[req[r].data.device_id] = 1
                  /\ resp[r].api_key = NoKey)
    /\ [][\A r \in Slots :
              /\ (pc[r] = "register" /\ pc'[r] # "register") =>
                     IF FindDevice(req[r].data.device_id) # NoDevice
                     THEN resp'[r].code = 500 /\ devices' = devices
                     ELSE /\ resp'[r].status = "registered"
                          /\ Cardinality(DOMAIN devices') = Cardinality(DOMAIN devices) + 1
              /\ Existing(r) =>
                     /\ pc'[r] # "register"
                     /\ resp'[r].status # "registered"
                     /\ devices' = devices
                     /\ ~PresentsSecret(r) => resp'[r].code = 401
                     /\ (PresentsSecret(r) /\ ~TargetApproved(r)) => resp'[r].code = 403]_vars

\* two first contacts for one device_id raced: one registered, the other failed
C7_Witness ==
    \E r1 \in Slots : \E r2 \in Slots :
        /\ pc[r1] = "done" /\ pc[r2] = "done"
        /\ req[r1].data.device_id = req[r2].data.device_id
        /\ req[r1].device = NoDevice /\ req[r2].device = NoDevice
        /\ resp[r1].status = "registered"
        /\ resp[r2].code = 500
        /\ Cardinality(DOMAIN devices) = 1

\* C8: a batch commits as a whole together with the counter update: the commit step
\* either adds every accepted row, adds their number to total_readings and sets
\* last_reading_at, or fails and changes nothing; no other step changes the readings
\* or the counters of a device.
C8_BatchAtomic ==
    [][\A r \in Slots :
          LET pk == req[r].device
              n == Len(req[r].rows)
          IN
          IF pc[r] = "commit" /\ pc'[r] # "commit"
          THEN \/ /\ pc'[r] = "refresh"
                  /\ readings \subseteq readings'
                  /\ Cardinality({x \in readings' \ readings : x.device_id = pk}) = n
                  /\ Cardinality(readings') = Cardinality(readings) + n
                  /\ devices'[pk].total_readings = devices[pk].total_readings + n
                  /\ devices'[pk].last_reading_at # NoTime
               \/ /\ resp'[r].code = 500
                  /\ readings' = readings
                  /\ devices' = devices
          ELSE (\A q \in Slots : ~(pc[q] = "commit" /\ pc'[q] # "commit")) =>
                  /\ readings' = readings
                  /\ \A k \in DOMAIN devices \cap DOMAIN devices' :
                         /\ devices'[k].total_readings = devices[k].total_readings
                         /\ devices'[k].last_reading_at = devices[k].last_reading_at]_vars

C10_RejectedChangesNothing ==
    [][\A r \in Slots :
          (Arrives(r) /\ resp'[r].code = 429) =>
              /\ pc'[r] = "done"
              /\ devices' = devices
              /\ readings' = readings
              /\ nextDeviceId' = nextDeviceId
              /\ nextReadingId' = nextReadingId
              /\ tokens' = tokens]_vars

\* a rejected request that would have registered an unseen device
C10_Witness ==
    \E r \in Slots :
        /\ pc[r] = "done"
        /\ resp[r].code = 429
        /\ req[r].data.readings # <<>>
        /\ FindDevice(req[r].data.device_id) = NoDevice
        /\ devices = <<>>

\* ---- claims about the OTA endpoints
\* an OTA request of the given operation is taken up by worker r in this step
OtaArrives(r, op) == opc[r] = "idle" /\ opc'[r] # "idle" /\ oreq'[r].op = op

\* a firmware record with the version exists and is active
ActiveVersion(version) ==
    \E f \in DOMAIN firmware : firmware[f].version = version /\ firmware[f].active

\* the device row the request's device_id names, 0 when there is none
Named(r) == FindDevice(oreq'[r].device_id)

\* the fields of an update record a status report writes
Outcome(row) == <<row.status, row.update_completed_at, row.error_message>>

\* C11: beginDownload for a version with no firmware record, or whose record is not
\* active, is answered not-found (404) at once, with or without a device_id, creates
\* no DeviceUpdate row and increments no download counter.
C11_InactiveDownloadNotFound ==
    [][\A r \in Slots :
          (OtaArrives(r, "download") /\ ~ActiveVersion(oreq'[r].version)) =>
              /\ opc'[r] = "done"
              /\ oresp'[r].code = 404
              /\ updates' = updates
              /\ nextUpdateId' = nextUpdateId
              /\ firmware' = firmware]_vars

\* a download of a version whose record is inactive, by a device that has a record
C11_Witness ==
    \E r \in Slots :
        /\ opc[r] = "done"
        /\ oreq[r].op = "download"
        /\ oresp[r].code = 404
        /\ FindDevice(oreq[r].device_id) # NoDevice
        /\ \E f \in DOMAIN firmware :
               firmware[f].version = oreq[r].version /\ ~firmware[f].active

\* C12: for an existing device, reportStatus with status success sets the device's
\* firmware_version to the reported version, whether or not the device has a
\* DeviceUpdate for it; with status failed it leaves firmware_version as it is; a
\* report for a device_id without a record changes no device.
C12_SuccessSetsVersion ==
    [][\A r \in Slots :
          (OtaArrives(r, "status") /\ oreq'[r].device_id # NoId
             /\ oreq'[r].version # NoVersion) =>
              LET pk == Named(r) IN
              /\ pk = NoDevice => devices' = devices
              /\ (pk # NoDevice /\ oreq'[r].status = "success") =>
                     /\ oresp'[r].code = 200
                     /\ devices'[pk].firmware_version = oreq'[r].version
              /\ (pk # NoDevice /\ oreq'[r].status = "failed") =>
                     devices'[pk].firmware_version = devices[pk].firmware_version]_vars

\* a success report for a version the device never began to download
C12_Witness ==
    \E r \in Slots :
        /\ opc[r] = "done"
        /\ oreq[r].op = "status"
        /\ oreq[r].status = "success"
        /\ oresp[r].code = 200
        /\ oreq[r].device \in DOMAIN devices
        /\ devices[oreq[r].device].firmware_version = oreq[r].version
        /\ \A u \in DOMAIN updates : updates[u].new_version # oreq[r].version

\* C13: once the status of a DeviceUpdate is success or failed, no later step changes
\* its status, completion timestamp or error detail; a beginDownload for the same
\* device and version adds a new record.
C13_TerminalStays ==
    [][\A u \in DOMAIN updates \cap DOMAIN updates' :
          updates[u].status \in {"success", "failed"} =>
              Outcome(updates'[u]) = Outcome(updates[u])]_vars

\* C14: a report whose status is not success or failed, or in which device_id,
\* version or status is missing, is answered 400 and changes no DeviceUpdate and no
\* Device; the status of a DeviceUpdate is never set to pending or downloading by a
\* report.
C14_BadStatusRejected ==
    [][\A r \in Slots :
          (OtaArrives(r, "status")
             /\ (oreq'[r].status \notin {"success", "failed"}
                   \/ oreq'[r].device_id = NoId \/ oreq'[r].version = NoVersion)) =>
              /\ oresp'[r].code = 400
              /\ updates' = updates
              /\ devices' = devices]_vars

\* C19: a report for an existing device and a version for which that device has no
\* DeviceUpdate is answered ok (200), adds no DeviceUpdate and changes none.
C19_UnmatchedReportAccepted ==
    [][\A r \in Slots :
          (OtaArrives(r, "status") /\ Named(r) # NoDevice
             /\ oreq'[r].version # NoVersion /\ oreq'[r].status # ""
             /\ \A u \in DOMAIN updates :
                    ~(updates[u].device_id = Named(r)
                        /\ updates[u].new_version = oreq'[r].version)) =>
              /\ oresp'[r].code = 200
              /\ oresp'[r].status = "ok"
              /\ updates' = updates
              /\ nextUpdateId' = nextUpdateId]_vars

\* an accepted failure report while the device has an attempt for another version only
C19_Witness ==
    \E r \in Slots :
        /\ opc[r] = "done"
        /\ oreq[r].op = "status"
        /\ oreq[r].status = "failed"
        /\ oresp[r].code = 200
        /\ oreq[r].device \in DOMAIN devices
        /\ \E u \in DOMAIN updates : updates[u].device_id = oreq[r].device
        /\ \A u \in DOMAIN updates : updates[u].new_version # oreq[r].version


\* the active firmware records with the latest upload time
LatestOffers ==
    {f \in DOMAIN firmware :
        /\ firmware[f].active
        /\ \A g \in DOMAIN firmware :
               firmware[g].active => firmware[g].uploaded_at <= firmware[f].uploaded_at}

\* C15: for an existing device and a declared version v, when an active firmware
\* exists, check answers update_available = true exactly when the version of the
\* latest active firmware is not the string v, and then names that version as
\* new_version; when the strings are equal it answers update_available = false and
\* names no version.
C15_OfferOnStringInequality ==
    [][\A r \in Slots :
          (OtaArrives(r, "check") /\ Named(r) # NoDevice
             /\ oreq'[r].version # AbsentVersion /\ LatestOffers # {}) =>
              \E f \in LatestOffers :
                  LET latest == firmware[f].version
                      v == oreq'[r].version
                  IN
                  /\ oresp'[r].code = 200
                  /\ oresp'[r].current_version = v
                  /\ oresp'[r].update_available = (latest # v)
                  /\ oresp'[r].new_version = IF latest # v THEN latest ELSE NoVersion]_vars

\* a device that declares a version above the catalog's is offered the catalog's
C15_Witness ==
    \E r \in Slots :
        /\ opc[r] = "done"
        /\ oreq[r].op = "check"
        /\ oreq[r].version = "9.9.9"
        /\ oresp[r].update_available
        /\ oresp[r].new_version = "1.0.1"
        /\ \E f \in LatestOffers : firmware[f].version = "1.0.1"

\* C16: a check that names a device_id is answered not-found (404) exactly when no
\* device row has that device_id; for an existing device it succeeds (200) whether
\* the device is approved or not; with no active firmware it answers
\* update_available = false with a message, not an error.
C16_CheckNeedsDeviceOnly ==
    [][\A r \in Slots :
          (OtaArrives(r, "check") /\ oreq'[r].device_id # NoId) =>
              /\ oresp'[r].code = 404 <=> Named(r) = NoDevice
              /\ Named(r) # NoDevice => oresp'[r].code = 200
              /\ (Named(r) # NoDevice /\ LatestOffers = {}) =>
                     /\ ~oresp'[r].update_available
                     /\ oresp'[r].message # NoMessage
                     /\ oresp'[r].error = ""]_vars

\* a check by a device that is not approved, answered with an offer
C16_Witness ==
    \E r \in Slots :
        /\ opc[r] = "done"
        /\ oreq[r].op = "check"
        /\ oreq[r].device \in DOMAIN devices
        /\ ~devices[oreq[r].device].approved
        /\ oresp[r].code = 200
        /\ oresp[r].update_available

\* the records of a device for a version with the most recent start time
MostRecent(pk, version) ==
    {u \in DOMAIN updates :
        /\ updates[u].device_id = pk
        /\ updates[u].new_version = version
        /\ \A w \in DOMAIN updates :
               (updates[w].device_id = pk /\ updates[w].new_version = version)
                   => updates[w].update_started_at <= updates[u].update_started_at}

\* C18: when a device has DeviceUpdate records for the reported version, an accepted
\* report writes its status and the completion time to one record with the most
\* recent start time and leaves status, completion timestamp and error detail of
\* every other record (older attempts, other versions, other devices) unchanged.
C18_OnlyLatestAttemptWritten ==
    [][\A r \in Slots :
          (OtaArrives(r, "status") /\ oresp'[r].code = 200) =>
              LET recent == MostRecent(Named(r), oreq'[r].version) IN
              /\ DOMAIN updates' = DOMAIN updates
              /\ recent # {} =>
                     \E u \in recent :
                         /\ updates'[u].status = oreq'[r].status
                         /\ updates'[u].update_completed_at = now
                         /\ \A w \in DOMAIN updates \ {u} :
                                Outcome(updates'[w]) = Outcome(updates[w])
              /\ recent = {} => updates' = updates]_vars

\* two attempts of one device for one version, started at different times: the later
\* one carries the reported outcome, the earlier one is still downloading, and so
\* are an attempt for another version or of another device
C18_Witness ==
    \E r \in Slots : \E u \in DOMAIN updates : \E w \in DOMAIN updates :
        /\ opc[r] = "done"
        /\ oreq[r].op = "status"
        /\ oresp[r].code = 200
        /\ updates[u].device_id = oreq[r].device
        /\ updates[w].device_id = oreq[r].device
        /\ updates[u].new_version = oreq[r].version
        /\ updates[w].new_version = oreq[r].version
        /\ updates[w].update_started_at < updates[u].update_started_at
        /\ updates[u].status = oreq[r].status
        /\ updates[w].status = "downloading"

\* C17: beginDownload for an active version by a device that has a record goes on to
\* its commit, and the commit adds exactly one DeviceUpdate in status downloading,
\* with the device's firmware_version as previous version and the requested version
\* as new version, and adds one to that firmware's download counter, whether the
\* file is then found (200) or not (404).
C17_DownloadRecorded ==
    [][\A r \in Slots :
          /\ (OtaArrives(r, "download") /\ ActiveVersion(oreq'[r].version)
                /\ Named(r) # NoDevice) => opc'[r] = "download"
          /\ (opc[r] = "download" /\ opc'[r] = "done"
                /\ oreq[r].device \in DOMAIN devices) =>
                 LET pk == oreq[r].device
                     f == oreq[r].firmware
                 IN
                 /\ oresp'[r].code \in {200, 404}
                 /\ \E u \in DOMAIN updates' :
                        /\ u \notin DOMAIN updates
                        /\ DOMAIN updates' = DOMAIN updates \cup {u}
                        /\ updates'[u].device_id = pk
                        /\ updates'[u].firmware_id = f
                        /\ updates'[u].status = "downloading"
                        /\ updates'[u].previous_version = devices[pk].firmware_version
                        /\ updates'[u].new_version = oreq[r].version
                 /\ \A w \in DOMAIN updates : updates'[w] = updates[w]
                 /\ firmware'[f].download_count = firmware[f].download_count + 1]_vars

\* C20: a device record is created with approved = false; approved becomes true only
\* in a step of the approve operation, which changes nothing else; and while the
\* record exists no step (submitReadings, OTA, updateProfile, regenerateCredential)
\* sets approved back to false.
C20_ApprovalOneWay ==
    [][/\ \A pk \in DOMAIN devices' \ DOMAIN devices : ~devices'[pk].approved
       /\ \A pk \in DOMAIN devices \cap DOMAIN devices' :
              /\ devices[pk].approved => devices'[pk].approved
              /\ (~devices[pk].approved /\ devices'[pk].approved) =>
                     /\ devices' = [devices EXCEPT ![pk].approved = TRUE]
                     /\ pc' = pc /\ opc' = opc
                     /\ readings' = readings /\ updates' = updates
                     /\ tokens' = tokens]_vars

\* an approved device after a persisted batch, a success report, a profile update
\* and a regenerated key
C20_Witness ==
    \E pk \in DOMAIN devices :
        /\ devices[pk].approved
        /\ devices[pk].total_readings > 0
        /\ devices[pk].firmware_version = "1.0.0"
        /\ devices[pk].reading_interval = 30000
        /\ devices[pk].api_key.kind = "plain"

\* an administrative operation is answered in this step, and the device it names
\* has no record when it starts
AnswersUnknown ==
    /\ adm' # adm
    /\ IF adm'.op = "regenerate"
       THEN adm'.pk \notin DOMAIN devices
       ELSE FindDevice(adm'.device_id) = NoDevice

SuccessReported(pk) ==
    \E r \in Slots :
        /\ OtaArrives(r, "status")
        /\ oreq'[r].status = "success"
        /\ Named(r) = pk
        /\ devices'[pk].firmware_version = oreq'[r].version

\* the batch of an accepted submission that declared a firmware version commits in
\* this step for the device row pk
DeclaredCommitted(pk) ==
    \E r \in Slots :
        /\ pc[r] = "commit"
        /\ pc'[r] = "refresh"
        /\ req[r].device = pk
        /\ req[r].data.firmware_version # NoVersion
        /\ devices'[pk].firmware_version = req[r].data.firmware_version

\* the firmware_version of the device row pk, which exists before and after the
\* step, is changed by it
VersionChanged(pk) ==
    /\ pk \in DOMAIN devices
    /\ pk \in DOMAIN devices'
    /\ devices'[pk].firmware_version # devices[pk].firmware_version

\* C22 (as stated): the firmware_version of an existing device is changed only by a
\* reportStatus with status success; no submitReadings call and no administrative
\* operation changes it
C22_OnlySuccessReportWrites ==
    [][\A pk \in 1..MaxDevicePk : VersionChanged(pk) => SuccessReported(pk)]_vars

\* C22 (amended): the firmware_version of an existing device is changed only by a
\* reportStatus with status success, which sets the reported version, or by the
\* commit of an accepted submitReadings that declared a firmware_version, which sets
\* the declared one; rejected submissions and the administration never change it
C22_VersionWriters ==
    [][\A pk \in 1..MaxDevicePk :
          VersionChanged(pk) => (SuccessReported(pk) \/ DeclaredCommitted(pk))]_vars

\* an approved device whose record holds the version its last submission declared,
\* after a success report had set another one
C22_Witness ==
    \E r \in Slots :
        /\ pc[r] = "done"
        /\ resp[r].code = 200
        /\ resp[r].status = "ok"
        /\ req[r].setfw
        /\ req[r].device \in DOMAIN devices
        /\ devices[req[r].device].firmware_version = "1.0.1"
        /\ \E u \in DOMAIN updates :
               /\ updates[u].device_id = req[r].device
               /\ updates[u].status = "success"
               /\ updates[u].new_version = "1.0.0"

\* the step is a regeneration of the key of the device row pk: no request moves, a
\* key is drawn and the row holds it
Regenerated(pk) ==
    /\ pc' = pc
    /\ opc' = opc
    /\ tokens' = tokens + 1
    /\ devices'[pk].api_key.secret = TokenHex(tokens')

\* the step is the registration of the device row pk: a first contact commits and
\* the row holds the hash of the secret its response carries
Registered(pk) ==
    \E r \in Slots :
        /\ pc[r] = "register"
        /\ pc'[r] = "done"
        /\ resp'[r].status = "registered"
        /\ devices'[pk].device_id = req[r].data.device_id
        /\ devices'[pk].api_key = GeneratePasswordHash(resp'[r].api_key, pk)

\* C23: the stored credential of a device is written at its registration and
\* afterwards replaced only by regenerateCredential, and its device_id never changes:
\* submitReadings on any outcome, check, beginDownload, reportStatus, approve and
\* updateProfile leave both as they are
C23_CredentialFrame ==
    [][\A pk \in 1..MaxDevicePk :
          /\ (pk \notin DOMAIN devices /\ pk \in DOMAIN devices') => Registered(pk)
          /\ (pk \in DOMAIN devices /\ pk \in DOMAIN devices') =>
                 /\ devices'[pk].device_id = devices[pk].device_id
                 /\ devices'[pk].api_key # devices[pk].api_key => Regenerated(pk)]_vars

\* a device that still holds the credential of its registration after it was
\* approved, given a new reading interval, had a batch accepted and reported a
\* successful update
C23_Witness ==
    \E pk \in DOMAIN devices :
        /\ devices[pk].api_key = GeneratePasswordHash(secretOf[pk], pk)
        /\ devices[pk].approved
        /\ devices[pk].reading_interval = 30000
        /\ devices[pk].total_readings > 0
        /\ devices[pk].firmware_version = "1.0.0"
        /\ \E u \in DOMAIN updates : updates[u].device_id = pk /\ updates[u].status = "success"

\* every reading and every update record references a device row, and every update
\* record a firmware row
References ==
    /\ \A x \in readings : x.device_id \in DOMAIN devices
    /\ \A u \in DOMAIN updates :
           /\ updates[u].device_id \in DOMAIN devices
           /\ updates[u].firmware_id \in DOMAIN firmware

\* C24: in every reachable state every Reading and every DeviceUpdate references an
\* existing Device; the step that deletes a device leaves no Reading and no
\* DeviceUpdate of it, and leaves every Firmware record, those its updates
\* referenced included, as it was
C24_ReferencesHold ==
    [][/\ References'
       /\ \A pk \in DOMAIN devices \ DOMAIN devices' :
              /\ \A x \in readings' : x.device_id # pk
              /\ \A u \in DOMAIN updates' : updates'[u].device_id # pk
              /\ firmware' = firmware]_vars

\* a device that had a reading and an update record has been deleted: both tables
\* are empty and the firmware it downloaded is still in the catalog
C24_Witness ==
    /\ devices = <<>>
    /\ nextReadingId > 1
    /\ nextUpdateId > 1
    /\ readings = {}
    /\ updates = <<>>
    /\ \E f \in DOMAIN firmware : firmware[f].download_count = 1

\* ---- claims about what the responses carry
\* a response of submitReadings carries a secret only when it is the registration
\* response, and no OTA response has an api_key field
DeviceResponsesCarryNoSecret ==
    /\ \A r \in Slots :
           resp[r].api_key # NoKey => (resp[r].code = 200 /\ resp[r].status = "registered")
    /\ \A r \in Slots : "api_key" \notin DOMAIN oresp[r]

\* C25 (as stated): the registration response of submitReadings is the only response
\* of any operation that contains a device secret in plaintext; every administrative
\* response, that of regenerateCredential included, carries none
C25_OnlyRegistrationCarriesSecret ==
    DeviceResponsesCarryNoSecret /\ adm.api_key = NoKey

\* C25 (amended): a device secret in plaintext is carried only by the registration
\* response of submitReadings and by the response of a regenerateCredential that
\* found the device, which returns the key it has just stored; the other responses
\* of submitReadings, the OTA responses and the other administrative responses
\* carry none
C25_SecretCarriers ==
    /\ DeviceResponsesCarryNoSecret
    /\ adm.api_key # NoKey =>
           /\ adm.op = "regenerate"
           /\ adm.code = 200
           /\ adm.pk \in DOMAIN devices
           /\ devices[adm.pk].api_key.secret = adm.api_key
    /\ adm.op \in {"approve", "update", "delete"} => adm.api_key = NoKey
    /\ adm.code = 404 => adm.api_key = NoKey

\* a regeneration has returned the new key, and the device's next submission, which
\* presented it, has been answered with an error that carries no key
C25_Witness ==
    \E r \in Slots :
        /\ adm.op = "regenerate"
        /\ adm.api_key # NoKey
        /\ pc[r] = "done"
        /\ req[r].data.api_key = adm.api_key
        /\ resp[r].code = 500
        /\ resp[r].api_key = NoKey

\* the call presents a secret that is not the device's, for a device that has a record
WrongSecret(r) == Existing(r) /\ ~PresentsSecret(r)

\* the call names a device_id that has no record when it is queried
Unseen(r) == Admitted(r) /\ FindDevice(req'[r].data.device_id) = NoDevice

\* C26 (as stated): a submitReadings call with a secret that is not the device's gets
\* for an existing device_id the outcome a device_id without a record gets, which is
\* to go on to the registration
C26_WrongSecretAsUnseen ==
    [][\A r \in Slots : WrongSecret(r) => pc'[r] = "register"]_vars

\* C26 (amended): a submitReadings call with a secret that is not the device's is
\* refused at once for an existing device_id, with 401 when the stored credential is
\* a hash and 500 when it is not, carries no secret and writes nothing; a call for a
\* device_id without a record goes on to the registration and is answered with the
\* registration response (500 when another request registered the device_id
\* meanwhile), never with 401: the outcome tells whether the device_id exists
C26_ExistenceShows ==
    [][\A r \in Slots :
          /\ WrongSecret(r) =>
                 LET dev == devices[FindDevice(req'[r].data.device_id)] IN
                 /\ pc'[r] = "done"
                 /\ resp'[r].code = IF dev.api_key.kind = "bcrypt" THEN 401 ELSE 500
                 /\ resp'[r].api_key = NoKey
                 /\ db' = db
          /\ Unseen(r) => pc'[r] = "register"
          /\ (pc[r] = "register" /\ pc'[r] = "done") =>
                 \/ resp'[r].code = 200 /\ resp'[r].status = "registered"
                 \/ resp'[r].code = 500 /\ db' = db]_vars

\* a call for a registered device with another key than the one it registered with
\* has been answered 401
C26_Witness ==
    \E r \in Slots :
        /\ pc[r] = "done"
        /\ resp[r].code = 401
        /\ req[r].device \in DOMAIN devices
        /\ req[r].data.api_key # secretOf[req[r].device]
        /\ registered[req[r].data.device_id] > 0

\* ---- claims about malformed requests
\* a submitReadings request passes the limiter in this step and has no JSON body, no
\* device_id, or no item in its readings array
Malformed(r) ==
    /\ Arrives(r)
    /\ resp'[r].code # 429
    /\ \/ req'[r].body # "json"
       \/ req'[r].data.device_id = NoId
       \/ req'[r].data.readings = <<>>

\* C27: a submitReadings request with no JSON body, with no device_id, or with a
\* missing or empty readings array is answered 400 and changes no persisted state;
\* it registers no device, also when its device_id has no record
C27_BadRequestRefused ==
    [][\A r \in Slots :
          Malformed(r) =>
              /\ pc'[r] = "done"
              /\ resp'[r].code = 400
              /\ resp'[r].api_key = NoKey
              /\ UNCHANGED <<db, catalog, tokens>>]_vars

\* ---- claims about the limiter's keys
\* the identity a request is counted under: the device_id of its body, and the
\* source address when the body has none
Identity(data) ==
    IF data.device_id # NoId THEN <<"device", data.device_id>> ELSE <<"ip", RemoteAddr>>

\* C28: the rate budget is kept per device_id of the request body, and per source
\* address only for a body without device_id: a request counts against its own
\* identity and leaves every other identity's counter as it is, and it is admitted
\* whenever fewer than 60 requests of its own identity arrived in the window,
\* however many requests other identities sent from the same address
C28_BudgetPerDevice ==
    [][\A r \in Slots :
          Arrives(r) =>
              LET own == Identity(req'[r].data) IN
              /\ \A k \in LimitKeys \ {own} :
                     limiter'[k] = limiter[k] /\ reached'[k] = reached[k]
              /\ issued[own] < RateLimit =>
                     /\ resp'[r].code # 429
                     /\ limiter'[own] = limiter[own] + 1
                     /\ reached'[own] = reached[own] + 1]_vars

\* the 60th request of esp32-b in a window is admitted after esp32-a, from the same
\* address, has used up its budget and been rejected
C28_Witness ==
    \E r \in Slots :
        /\ pc[r] = "done"
        /\ req[r].data.device_id = "esp32-b"
        /\ resp[r].code = 400
        /\ reached[<<"device", "esp32-b">>] = RateLimit
        /\ issued[<<"device", "esp32-a">>] > RateLimit
        /\ reached[<<"device", "esp32-a">>] = RateLimit

\* ---- claims about the catalog
\* the firmware rows that have the active flag set
ActiveFirmware == {f \in DOMAIN firmware : firmware[f].active}

\* C29: for a check by an existing device, latestActive returns none (the answer is
\* 'No firmware available') exactly when no firmware has the active flag set;
\* otherwise the firmware it returns, which the answer offers or finds equal to the
\* declared version, is active and no active firmware has a later upload time; a
\* firmware whose active flag is cleared is never offered, whatever its upload time
C29_LatestActive ==
    [][\A r \in Slots :
          (OtaArrives(r, "check") /\ Named(r) # NoDevice) =>
              /\ oresp'[r].code = 200
              /\ oresp'[r].message = "No firmware available" <=> ActiveFirmware = {}
              /\ ActiveFirmware # {} =>
                     \E f \in ActiveFirmware :
                         /\ \A g \in ActiveFirmware :
                                firmware[g].uploaded_at <= firmware[f].uploaded_at
                         /\ IF oresp'[r].update_available
                            THEN oresp'[r].new_version = firmware[f].version
                            ELSE oresp'[r].current_version = firmware[f].version
              /\ \A g \in DOMAIN firmware \ ActiveFirmware :
                     oresp'[r].new_version # firmware[g].version]_vars

\* a check is answered with an offer of the active firmware while a firmware that
\* was uploaded later has its active flag cleared
C29_Witness ==
    \E r \in Slots :
        /\ opc[r] = "done"
        /\ oreq[r].op = "check"
        /\ oresp[r].update_available
        /\ \E f \in ActiveFirmware : \E g \in DOMAIN firmware \ ActiveFirmware :
               /\ oresp[r].new_version = firmware[f].version
               /\ firmware[g].uploaded_at > firmware[f].uploaded_at

\* ---- claims about Device.is_online
\* C30: isOnline(device, thresholdMinutes) is false for a device whose last_seen was
\* never set, and otherwise true exactly when now - last_seen is strictly less than
\* thresholdMinutes * 60 seconds: false at exactly the threshold
C30_OnlineStrictlyWithin ==
    adm.op = "view" =>
        LET last_seen == devices[adm.pk].last_seen
            limit == adm.threshold_minutes * 60
        IN
        /\ last_seen = NoTime => ~adm.is_online
        /\ last_seen # NoTime => (adm.is_online <=> now - last_seen < limit)
        /\ (last_seen # NoTime /\ now - last_seen = limit) => ~adm.is_online

\* a device seen exactly two minutes ago, viewed with a threshold of two minutes,
\* is reported offline
C30_Witness ==
    /\ adm.op = "view"
    /\ adm.threshold_minutes = 2
    /\ devices[adm.pk].last_seen # NoTime
    /\ now - devices[adm.pk].last_seen = 120
    /\ ~adm.is_online

\* ---- claims about request-parallel execution
\* no submitReadings request is between its query and its response
Quiet == \A r \in Slots : pc[r] \in {"idle", "done"}

\* C31: under request-parallel execution, once the concurrent submitReadings requests
\* for a device have completed, its total_readings equals the number of Reading rows
\* persisted for it: no interleaving of two batches loses a counter update
C31_CounterMatchesRows ==
    Quiet =>
        \A pk \in DOMAIN devices :
            devices[pk].total_readings = Cardinality({x \in readings : x.device_id = pk})

\* no download request is between its query and its response
OtaQuiet == \A r \in Slots : opc[r] \in {"idle", "done"}

\* C32: with no device deleted, each firmware's download_count equals the number of
\* DeviceUpdate records for that firmware, also after downloads handled in parallel
C32_DownloadsMatchRecords ==
    OtaQuiet =>
        \A f \in DOMAIN firmware :
            firmware[f].download_count =
                Cardinality({u \in DOMAIN updates : updates[u].firmware_id = f})

\* ---- claims about the registration secret
\* the call presents the secret the registration of its device returned, the device
\* is approved, its key was never regenerated and the batch has a well-formed item
HoldsRegistrationSecret(r) ==
    /\ Existing(r)
    /\ PresentsSecret(r)
    /\ TargetApproved(r)
    /\ FindDevice(req'[r].data.device_id) \notin DOMAIN oldSecrets
    /\ CountWellFormed(req'[r].data.readings) >= 1

\* C33: the secret the registration response returns verifies against the stored
\* credential, and once the device is approved every submitReadings with that secret
\* and at least one well-formed reading is answered ok, never 401 and never 403,
\* while the device is neither deleted nor given a regenerated key
C33_RegistrationSecretAccepted ==
    [][\A r \in Slots :
          /\ (pc[r] = "register" /\ resp'[r].status = "registered") =>
                 \E pk \in DOMAIN devices' :
                     /\ devices'[pk].device_id = req[r].data.device_id
                     /\ CheckPasswordHash(devices'[pk].api_key, resp'[r].api_key) = "match"
          /\ HoldsRegistrationSecret(r) => pc'[r] = "commit"
          /\ (pc[r] \in {"commit", "refresh"} /\ pc'[r] = "done"
                /\ req[r].device \in DOMAIN devices) =>
                 resp'[r].code = 200 /\ resp'[r].status = "ok"]_vars

\* ---- claims about refused submissions
\* a submitReadings call is answered in this step with 401 or 403
Refused(r) == pc[r] # "done" /\ pc'[r] = "done" /\ resp'[r].code \in {401, 403}

\* the row pk has another last_seen or firmware_version after the step
Refreshed(pk) ==
    \/ devices'[pk].last_seen # devices[pk].last_seen
    \/ devices'[pk].firmware_version # devices[pk].firmware_version

\* C34: a submitReadings call that ends with 401 or 403 leaves every field of every
\* device record as it is; a submission refreshes last_seen and firmware_version
\* only at the commit of a call whose secret matched and whose device was approved
C34_RefusedLeavesDevice ==
    [][/\ \A r \in Slots : Refused(r) => devices' = devices
       /\ \A r \in Slots :
              (Arrives(r) /\ pc'[r] = "commit") =>
                  /\ CheckPasswordHash(devices[req'[r].device].api_key,
                                       req'[r].data.api_key) = "match"
                  /\ devices[req'[r].device].approved
       /\ \A pk \in DOMAIN devices \cap DOMAIN devices' :
              Refreshed(pk) =>
                  \E r \in Slots : /\ pc[r] = "commit"
                                   /\ pc'[r] = "refresh"
                                   /\ req[r].device = pk]_vars

\* a call that declared another firmware version than the stored one, later than the
\* device was last seen, has been answered 403 and the row is as it was
C34_Witness ==
    \E r \in Slots :
        /\ pc[r] = "done"
        /\ resp[r].code = 403
        /\ req[r].device \in DOMAIN devices
        /\ req[r].data.firmware_version # NoVersion
        /\ devices[req[r].device].firmware_version # req[r].data.firmware_version
        /\ devices[req[r].device].last_seen < now

\* ---- claims about the DeviceUpdate records
\* C35: a DeviceUpdate record has a completion timestamp exactly when its status is
\* success or failed
C35_CompletedIffTerminal ==
    \A u \in DOMAIN updates :
        (updates[u].update_completed_at # NoTime) <=>
            (updates[u].status \in {"success", "failed"})

\* ---- claims about duplicate reports
\* C36: reportStatus is idempotent against duplicates: a report that is applied again
\* directly after it was applied leaves every device's firmware_version, every
\* DeviceUpdate's status and error detail and the number of DeviceUpdate records as
\* the first application left them
C36_DuplicateReportChangesNothing ==
    [][(OtaArrives(2, "status") /\ Named(2) # NoDevice) =>
           /\ \A pk \in DOMAIN devices :
                  devices'[pk].firmware_version = devices[pk].firmware_version
           /\ DOMAIN updates' = DOMAIN updates
           /\ \A u \in DOMAIN updates :
                  /\ updates'[u].status = updates[u].status
                  /\ updates'[u].error_message = updates[u].error_message]_vars

\* ---- claims about the timestamps of the readings
\* the event time the resolution rule gives an item: the device's Unix timestamp when
\* the item carries one that converts, the server time t otherwise
ResolvedTime(timestamp, t) ==
    IF timestamp # NoTimestamp /\ FromTimestamp(timestamp) = "datetime"
    THEN LocalTime(timestamp.v)
    ELSE UtcNow(t)

\* the call is authenticated for an approved device and every item of its batch has
\* a sensor name, a numeric value and a unit
SubmitsWellFormed(r) ==
    /\ Existing(r)
    /\ PresentsSecret(r)
    /\ TargetApproved(r)
    /\ \A i \in 1..Len(req'[r].data.readings) : WellFormed(req'[r].data.readings[i])

\* C37: every persisted Reading has the server time of its request as receipt
\* timestamp, and as event timestamp the device-supplied Unix timestamp when one is
\* supplied and converts and the server time otherwise; a timestamp that cannot be
\* converted makes neither the item nor the batch fail
C37_TimestampResolved ==
    [][\A r \in Slots :
          /\ SubmitsWellFormed(r) =>
                 /\ pc'[r] = "commit"
                 /\ req'[r].t = now
                 /\ req'[r].rows = req'[r].data.readings
          /\ (pc[r] = "commit" /\ pc'[r] = "refresh") =>
                 \A i \in 1..Len(req[r].rows) :
                     \E x \in readings' \ readings :
                         /\ x.id = nextReadingId + i - 1
                         /\ x.received_at = UtcNow(req[r].t)
                         /\ x.timestamp = ResolvedTime(req[r].rows[i].timestamp, req[r].t)]_vars

\* ---- claims about the reporting interval
\* C38: the success response of submitReadings carries reading_interval exactly when
\* the device has a server-assigned interval (its stored reading_interval is not 0),
\* and then the value stored on the device when the response is built: a change by
\* updateProfile shows in the next successful submission
C38_IntervalReported ==
    [][\A r \in Slots :
          (pc[r] = "refresh" /\ pc'[r] = "done" /\ resp'[r].code = 200) =>
              LET stored == devices[req[r].device].reading_interval IN
              /\ resp'[r].status = "ok"
              /\ stored # 0 => resp'[r].reading_interval = stored
              /\ stored = 0 => resp'[r].reading_interval = NoInterval]_vars

\* a submission answered ok with the interval that updateProfile assigned
C38_Witness ==
    \E r \in Slots :
        /\ pc[r] = "done"
        /\ resp[r].code = 200
        /\ resp[r].status = "ok"
        /\ resp[r].reading_interval = 30000

====
